---- MODULE Spec2Model ----
(***************************************************************************)
(* Market Data Caching & Indicator Engine of AnchorGrid.                   *)
(*                                                                         *)
(*  - MarketStateManager.get_market_data: cache-first read of the Bar      *)
(*    Store, ordered source chain on a miss, upsert of the fetched bars.   *)
(*  - TickerRegistry.record_access: per-ticker access count and tier.      *)
(*  - Batch indicators ema / rsi / macd and the incremental EMAState,      *)
(*    RSIState, MACDState.                                                 *)
(*  - calculate_composite_score and QuantService.analyze.                  *)
(*                                                                         *)
(* Floating-point values are modelled as exact rationals over arbitrary    *)
(* precision integers (sequences of limbs), plus NaN.                       *)
(***************************************************************************)
EXTENDS Integers, Sequences, FiniteSets, TLC

\* statement order: a is evaluated, then b, whose value it is
Then(a, b) == <<a, b>>[2]
\* an array built element by element: the elements are computed once, when it
\* is built
Array(f) == f \o <<>>

\* ---------------------------------------------------------------------------
\* Exact arithmetic.  An integer is a little-endian sequence of balanced limbs
\* (-LimbHalf..LimbHalf in the odd base LimbBase) without a trailing zero: the
\* representation is unique, the sign is the sign of the last limb and the
\* negation is limb-wise.  Carries and column sums run over index ranges split
\* in halves, so that the evaluation nests logarithmically in the length.
\* ---------------------------------------------------------------------------
LimbBase == 2 * 500 + 1
LimbHalf == LimbBase \div 2

\* carries run through the columns lo..hi of s, starting with c
RECURSIVE ZCarry(_, _, _, _)
ZCarry(s, lo, hi, c) ==
    IF lo = hi
    THEN LET x == s[lo] + c + LimbHalf
         IN  [out |-> <<(x % LimbBase) - LimbHalf>>, c |-> x \div LimbBase]
    ELSE LET mid   == (lo + hi) \div 2
             left  == ZCarry(s, lo, mid, c)
             right == ZCarry(s, mid + 1, hi, left.c)
         IN  [out |-> left.out \o right.out, c |-> right.c]

ZTrim(s) ==
    SubSeq(s, 1, CHOOSE n \in 0..Len(s) :
                     (n = 0 \/ s[n] # 0) /\ \A j \in (n + 1)..Len(s) : s[j] = 0)

\* the integer whose columns (any integers) are s; three more limbs take the
\* carry out of the last column
ZNorm(s) ==
    LET padded == s \o <<0, 0, 0>>
    IN  ZTrim(ZCarry(padded, 1, Len(padded), 0).out)

\* sum over i in lo..hi of a[i] * b[k + 1 - i]
RECURSIVE ZColumn(_, _, _, _, _)
ZColumn(a, b, k, lo, hi) ==
    IF lo > hi THEN 0
    ELSE IF lo = hi THEN a[lo] * b[k + 1 - lo]
    ELSE LET mid == (lo + hi) \div 2
         IN  ZColumn(a, b, k, lo, mid) + ZColumn(a, b, k, mid + 1, hi)

\* column k of the product a * b
ZDot(a, b, k) ==
    ZColumn(a, b, k, IF k + 1 - Len(b) > 1 THEN k + 1 - Len(b) ELSE 1,
                     IF k < Len(a) THEN k ELSE Len(a))

\* a * b + c * d (the operands are evaluated first)
ZMulAdd(a, b, c, d) ==
    Then(<<a, b, c, d>>,
         ZNorm([k \in 1..(IF Len(a) + Len(b) > Len(c) + Len(d)
                          THEN Len(a) + Len(b) ELSE Len(c) + Len(d)) |->
                   ZDot(a, b, k) + ZDot(c, d, k)]))

ZMul(a, b) == ZMulAdd(a, b, <<>>, <<>>)
ZNeg(a) == Array([i \in 1..Len(a) |-> -a[i]])
ZSign(a) == IF a = <<>> THEN 0 ELSE IF a[Len(a)] > 0 THEN 1 ELSE -1
ZOfInt(i) == ZNorm(<<i>>)

\* rationals: [n, d] with d > 0, not reduced; compared by cross-multiplication
QMk(n, d) == [n |-> n, d |-> d]
QOfInt(i) == QMk(ZOfInt(i), <<1>>)
\* i / j for j > 0
QFrac(i, j) == QMk(ZOfInt(i), ZOfInt(j))
QNeg(a) == QMk(ZNeg(a.n), a.d)
QAdd(a, b) == QMk(ZMulAdd(a.n, b.d, b.n, a.d), ZMul(a.d, b.d))
QSub(a, b) == QMk(ZMulAdd(a.n, b.d, ZNeg(b.n), a.d), ZMul(a.d, b.d))
QMul(a, b) == QMk(ZMul(a.n, b.n), ZMul(a.d, b.d))
\* n / d for d # 0
QRatio(n, d) == IF ZSign(d) > 0 THEN QMk(n, d) ELSE QMk(ZNeg(n), ZNeg(d))
\* a / b for b # 0
QDiv(a, b) == QRatio(ZMul(a.n, b.d), ZMul(a.d, b.n))
QSign(a) == ZSign(a.n)
QCmp(a, b) == ZSign(ZMulAdd(a.n, b.d, ZNeg(b.n), a.d))
QEq(a, b) == QCmp(a, b) = 0
QLt(a, b) == QCmp(a, b) < 0
QLe(a, b) == QCmp(a, b) <= 0
QAbs(a) == QMk(IF ZSign(a.n) < 0 THEN ZNeg(a.n) ELSE a.n, a.d)
QIsZero(a) == a.n = <<>>

\* a float is <<>> (NaN) or <<q>>; Python's None is modelled the same way
NaN == <<>>
None == <<>>
Fin(q) == <<q>>
IsNaN(x) == x = <<>>
FAdd(x, y) == IF IsNaN(x) \/ IsNaN(y) THEN NaN ELSE Fin(QAdd(x[1], y[1]))
FSub(x, y) == IF IsNaN(x) \/ IsNaN(y) THEN NaN ELSE Fin(QSub(x[1], y[1]))
FMul(x, y) == IF IsNaN(x) \/ IsNaN(y) THEN NaN ELSE Fin(QMul(x[1], y[1]))
\* same definedness and, where defined, the same number
FSame(x, y) == IsNaN(x) = IsNaN(y) /\ (IsNaN(x) \/ QEq(x[1], y[1]))

FullNaN(s) == Array([i \in 1..Len(s) |-> NaN])
FOfInt(i) == Fin(QOfInt(i))

\* ---------------------------------------------------------------------------
\* Batch indicators (plugins/finance/extractors/indicators.py)
\* Arrays are sequences of floats; index i of the source is index i+1 here.
\* ---------------------------------------------------------------------------

\* for i in range(lo, hi + 1): result[i] = alpha*prices[i] + (1-alpha)*result[i-1]
\* (index i of the source is i + 1 here; the range is run in two halves, which
\* keeps the nesting of the evaluation logarithmic in its length)
RECURSIVE ema_loop(_, _, _, _, _)
ema_loop(prices, alpha, result, lo, hi) ==
    IF lo > hi \/ Len(result) >= hi THEN result
    ELSE IF lo = hi
    THEN Append(result,
                FAdd(FMul(alpha, prices[lo]),
                     FMul(FSub(FOfInt(1), alpha), result[lo - 1])))
    ELSE LET mid == (lo + hi) \div 2
         IN  ema_loop(prices, alpha, ema_loop(prices, alpha, result, lo, mid),
                      mid + 1, hi)

ema(prices, period) ==
    IF Len(prices) < period THEN FullNaN(prices)
    ELSE LET warmup(result) ==
                 Then(result, Array([i \in 1..Len(prices) |->
                                        IF i <= period - 1 THEN NaN ELSE result[i]]))
         IN  warmup(ema_loop(prices, Fin(QFrac(2, period + 1)), <<prices[1]>>,
                             2, Len(prices)))

\* np.diff
diff(prices) ==
    Array([i \in 1..(Len(prices) - 1) |-> QSub(prices[i + 1][1], prices[i][1])])

\* s[lo] + ... + s[hi]
RECURSIVE QSumRange(_, _, _)
QSumRange(s, lo, hi) ==
    IF lo > hi THEN QOfInt(0)
    ELSE IF lo = hi THEN s[lo]
    ELSE LET mid == (lo + hi) \div 2
             sum(a, b) == Then(<<a, b>>, QAdd(a, b))
         IN  sum(QSumRange(s, lo, mid), QSumRange(s, mid + 1, hi))

QSum(s) ==
    LET a == Array(s)
    IN  Then(a, QSumRange(a, 1, Len(a)))

mean(s) == QDiv(QSum(s), QOfInt(Len(s)))

\* for i in range(lo, hi + 1): avg[i] = (avg[i-1] * (period - 1) + x[i]) / period
\* (run in two halves like ema_loop)
RECURSIVE smooth_loop(_, _, _, _, _)
smooth_loop(x, period, avg, lo, hi) ==
    IF lo > hi \/ Len(avg) >= hi THEN avg
    ELSE IF lo = hi
    THEN Append(avg, QDiv(QAdd(QMul(avg[lo - 1], QOfInt(period - 1)), x[lo]),
                          QOfInt(period)))
    ELSE LET mid == (lo + hi) \div 2
         IN  smooth_loop(x, period, smooth_loop(x, period, avg, lo, mid), mid + 1, hi)

\* np.zeros with the seed at index period-1, then the smoothed values
wilder(x, period) ==
    LET seeded(avg) == Then(avg, smooth_loop(x, period, avg, period + 1, Len(x)))
    IN  Then(x, seeded(Array([i \in 1..period |->
                                 IF i = period THEN mean(SubSeq(x, 1, period))
                                 ELSE QOfInt(0)])))

\* rs = where(avg_loss != 0, avg_gain / avg_loss, 100); 100 - 100 / (1 + rs)
rsi_value(avg_gain, avg_loss) ==
    LET rs == IF ~QIsZero(avg_loss) THEN QDiv(avg_gain, avg_loss) ELSE QOfInt(100)
    IN  QSub(QOfInt(100), QDiv(QOfInt(100), QAdd(QOfInt(1), rs)))

\* np.where(deltas > 0, deltas, 0) and np.where(deltas < 0, -deltas, 0)
gains_of(deltas) ==
    Array([i \in 1..Len(deltas) |->
              IF QSign(deltas[i]) > 0 THEN deltas[i] ELSE QOfInt(0)])

losses_of(deltas) ==
    Array([i \in 1..Len(deltas) |->
              IF QSign(deltas[i]) < 0 THEN QNeg(deltas[i]) ELSE QOfInt(0)])

rsi(prices, period) ==
    IF Len(prices) < period + 1 THEN FullNaN(prices)
    ELSE LET padded(avg_gain, avg_loss) ==
                 Then(avg_gain, Then(avg_loss,
                      Array([i \in 1..Len(prices) |->
                          IF i <= period THEN NaN
                          ELSE Fin(rsi_value(avg_gain[i - 1], avg_loss[i - 1]))])))
             smoothed(deltas) ==
                 Then(deltas, padded(wilder(gains_of(deltas), period),
                                     wilder(losses_of(deltas), period)))
         IN  smoothed(diff(prices))

macd(prices, fast, slow, signal) ==
    LET lines(macd_line, signal_line) ==
            <<macd_line, signal_line,
              Array([i \in 1..Len(prices) |->
                        FSub(macd_line[i], signal_line[i])])>>
        signalled(macd_line) ==
            Then(macd_line, lines(macd_line, ema(macd_line, signal)))
        crossed(ema_fast, ema_slow) ==
            Then(ema_fast, Then(ema_slow,
                 signalled(Array([i \in 1..Len(prices) |->
                                     FSub(ema_fast[i], ema_slow[i])]))))
    IN  crossed(ema(prices, fast), ema(prices, slow))

\* ---------------------------------------------------------------------------
\* Incremental state machines (quantgrid/indicators/state.py)
\* update returns [st |-> the new state, out |-> None or <<value>>]
\* ---------------------------------------------------------------------------
EMAState(period) ==
    [period |-> period, alpha |-> QFrac(2, period + 1), value |-> None, count |-> 0]

\* (mutant) the warm-up lasts one update longer
EMAState_update_late(self, price) ==
    LET count == self.count + 1
        stored(value) ==
            [st  |-> [self EXCEPT !.count = count, !.value = <<value>>],
             out |-> IF count <= self.period THEN None ELSE <<value>>]
    IN  stored(IF self.value = None THEN price
               ELSE QAdd(QMul(self.alpha, price),
                         QMul(QSub(QOfInt(1), self.alpha), self.value[1])))

\* (mutant) the warm-up lasts one update less
EMAState_update_early(self, price) ==
    LET count == self.count + 1
        stored(value) ==
            [st  |-> [self EXCEPT !.count = count, !.value = <<value>>],
             out |-> IF count + 1 < self.period THEN None ELSE <<value>>]
    IN  stored(IF self.value = None THEN price
               ELSE QAdd(QMul(self.alpha, price),
                         QMul(QSub(QOfInt(1), self.alpha), self.value[1])))

EMAState_update(self, price) ==
    LET count == self.count + 1
        stored(value) ==
            [st  |-> [self EXCEPT !.count = count, !.value = <<value>>],
             out |-> IF count < self.period THEN None ELSE <<value>>]
    IN  stored(IF self.value = None THEN price
               ELSE QAdd(QMul(self.alpha, price),
                         QMul(QSub(QOfInt(1), self.alpha), self.value[1])))

RSIState(period) ==
    [period |-> period, avg_gain |-> QOfInt(0), avg_loss |-> QOfInt(0),
     prev_price |-> None, count |-> 0, gains_buffer |-> <<>>, losses_buffer |-> <<>>]

QMax0(x) == IF QSign(x) > 0 THEN x ELSE QOfInt(0)

RSIState_update(self, price) ==
    IF self.prev_price = None
    THEN [st |-> [self EXCEPT !.prev_price = <<price>>], out |-> None]
    ELSE
    LET count == self.count + 1
        s1    == [self EXCEPT !.prev_price = <<price>>, !.count = count]
        \* the warm-up: the buffers fill, and seed the averages when full
        buffered(gb, lb) ==
            IF count = self.period
            THEN [st |-> [s1 EXCEPT !.avg_gain = QDiv(QSum(gb), QOfInt(self.period)),
                                    !.avg_loss = QDiv(QSum(lb), QOfInt(self.period)),
                                    !.gains_buffer = <<>>,
                                    !.losses_buffer = <<>>],
                  out |-> None]
            ELSE [st |-> [s1 EXCEPT !.gains_buffer = gb, !.losses_buffer = lb],
                  out |-> None]
        \* after the warm-up: the smoothed averages ag, al
        smoothed(ag, al) ==
            LET s2 == [s1 EXCEPT !.avg_gain = ag, !.avg_loss = al]
            IN  IF QIsZero(al)
                THEN [st |-> s2, out |-> <<QOfInt(100)>>]
                ELSE [st |-> s2,
                      out |-> <<QSub(QOfInt(100),
                                     QDiv(QOfInt(100),
                                          QAdd(QOfInt(1), QDiv(ag, al))))>>]
        moved(gain, loss) ==
            IF count <= self.period
            THEN buffered(Append(self.gains_buffer, gain),
                          Append(self.losses_buffer, loss))
            ELSE smoothed(QDiv(QAdd(QMul(self.avg_gain, QOfInt(self.period - 1)), gain),
                               QOfInt(self.period)),
                          QDiv(QAdd(QMul(self.avg_loss, QOfInt(self.period - 1)), loss),
                               QOfInt(self.period)))
        changed(change) == moved(QMax0(change), QMax0(QNeg(change)))
    IN  changed(QSub(price, self.prev_price[1]))

MACDState(fast_period, slow_period, signal_period) ==
    [fast_ema |-> EMAState(fast_period), slow_ema |-> EMAState(slow_period),
     signal_ema |-> EMAState(signal_period)]

\* out is None or <<(macd_line, signal_line, histogram)>>
MACDState_update(self, price) ==
    LET signalled(s1, macd_line, g) ==
            LET s2 == [s1 EXCEPT !.signal_ema = g.st]
            IN  IF g.out = None
                THEN [st |-> s2, out |-> None]
                ELSE [st |-> s2,
                      out |-> <<<<macd_line, g.out[1], QSub(macd_line, g.out[1])>>>>]
        crossed(s1, macd_line) ==
            signalled(s1, macd_line, EMAState_update(self.signal_ema, macd_line))
        updated(f, s) ==
            LET s1 == [self EXCEPT !.fast_ema = f.st, !.slow_ema = s.st]
            IN  IF f.out = None \/ s.out = None
                THEN [st |-> s1, out |-> None]
                ELSE crossed(s1, QSub(f.out[1], s.out[1]))
    IN  updated(EMAState_update(self.fast_ema, price),
                EMAState_update(self.slow_ema, price))

\* ---------------------------------------------------------------------------
\* Composite scoring (plugins/finance/extractors/composite.py)
\* An Optional[float] is None or <<q>>; the macd triple is None or <<<<l, s, h>>>>.
\* ---------------------------------------------------------------------------
\* (rsi_, macd_: the parameters rsi and macd of the source)
\* (mutant) overbought read as a buy
calculate_rsi_signal_flipped(rsi_) ==
    IF QLt(rsi_, QOfInt(30)) THEN <<QFrac(4, 5), "oversold">>
    ELSE IF QLt(rsi_, QOfInt(40)) THEN <<QFrac(2, 5), "near_oversold">>
    ELSE IF QLt(QOfInt(70), rsi_) THEN <<QFrac(4, 5), "overbought">>
    ELSE IF QLt(QOfInt(60), rsi_) THEN <<QFrac(-2, 5), "near_overbought">>
    ELSE <<QOfInt(0), "neutral">>

calculate_rsi_signal(rsi_) ==
    IF QLt(rsi_, QOfInt(30)) THEN <<QFrac(4, 5), "oversold">>
    ELSE IF QLt(rsi_, QOfInt(40)) THEN <<QFrac(2, 5), "near_oversold">>
    ELSE IF QLt(QOfInt(70), rsi_) THEN <<QFrac(-4, 5), "overbought">>
    ELSE IF QLt(QOfInt(60), rsi_) THEN <<QFrac(-2, 5), "near_overbought">>
    ELSE <<QOfInt(0), "neutral">>

calculate_macd_signal(macd_line, signal_line, histogram, prev_histogram) ==
    IF QLt(signal_line, macd_line) /\ QSign(histogram) > 0
    THEN IF prev_histogram # None /\ QSign(prev_histogram[1]) <= 0
         THEN <<QFrac(9, 10), "fresh_bullish_crossover">>
         ELSE <<QFrac(3, 5), "bullish_crossover">>
    ELSE IF QLt(macd_line, signal_line) /\ QSign(histogram) < 0
    THEN IF prev_histogram # None /\ QSign(prev_histogram[1]) >= 0
         THEN <<QFrac(-9, 10), "fresh_bearish_crossover">>
         ELSE <<QFrac(-3, 5), "bearish_crossover">>
    ELSE <<QOfInt(0), "neutral">>

calculate_ema_signal(price, ema_20, ema_50) ==
    IF QLt(ema_20, price) /\ QLt(ema_50, ema_20) THEN <<QFrac(7, 10), "uptrend">>
    ELSE IF QLt(price, ema_20) /\ QLt(ema_20, ema_50) THEN <<QFrac(-7, 10), "downtrend">>
    ELSE IF QLt(ema_20, price) THEN <<QFrac(3, 10), "above_ema20">>
    ELSE IF QLt(price, ema_20) THEN <<QFrac(-3, 10), "below_ema20">>
    ELSE <<QOfInt(0), "neutral">>

\* the default weights
weights == [rsi |-> QFrac(1, 4), macd |-> QFrac(7, 20), ema |-> QFrac(2, 5)]

\* (mutant) a missing indicator counted as a component of score 0
component_terms_zero(price, rsi_, macd_, ema_20, ema_50) ==
    <<[name |-> "rsi", weight |-> weights.rsi,
       score |-> IF rsi_ # None THEN calculate_rsi_signal(rsi_[1])[1] ELSE QOfInt(0)],
      [name |-> "macd", weight |-> weights.macd,
       score |-> IF macd_ # None
                 THEN calculate_macd_signal(macd_[1][1], macd_[1][2], macd_[1][3], None)[1]
                 ELSE QOfInt(0)],
      [name |-> "ema", weight |-> weights.ema,
       score |-> IF ema_20 # None /\ ema_50 # None
                 THEN calculate_ema_signal(price, ema_20[1], ema_50[1])[1]
                 ELSE QOfInt(0)]>>

\* lines 118-153: the three "if ... is not None" blocks, in order; each appends
\* the component it scored
component_terms(price, rsi_, macd_, ema_20, ema_50) ==
    (IF rsi_ # None
     THEN <<[name |-> "rsi", weight |-> weights.rsi,
             score |-> calculate_rsi_signal(rsi_[1])[1]]>>
     ELSE <<>>)
    \o (IF macd_ # None
        THEN <<[name |-> "macd", weight |-> weights.macd,
                score |-> calculate_macd_signal(macd_[1][1], macd_[1][2], macd_[1][3],
                                                None)[1]]>>
        ELSE <<>>)
    \o (IF ema_20 # None /\ ema_50 # None
        THEN <<[name |-> "ema", weight |-> weights.ema,
                score |-> calculate_ema_signal(price, ema_20[1], ema_50[1])[1]]>>
        ELSE <<>>)

\* (mutant) the strong-buy threshold read as exclusive
signal_of_strict(normalized_score) ==
    IF QLt(QFrac(3, 5), normalized_score) THEN "STRONG_BUY"
    ELSE IF QLe(QFrac(1, 5), normalized_score) THEN "BUY"
    ELSE IF QLe(normalized_score, QFrac(-3, 5)) THEN "STRONG_SELL"
    ELSE IF QLe(normalized_score, QFrac(-1, 5)) THEN "SELL"
    ELSE "HOLD"

\* lines 162-172
signal_of(normalized_score) ==
    IF QLe(QFrac(3, 5), normalized_score) THEN "STRONG_BUY"
    ELSE IF QLe(QFrac(1, 5), normalized_score) THEN "BUY"
    ELSE IF QLe(normalized_score, QFrac(-3, 5)) THEN "STRONG_SELL"
    ELSE IF QLe(normalized_score, QFrac(-1, 5)) THEN "SELL"
    ELSE "HOLD"

calculate_composite_score(price, rsi_, macd_, ema_20, ema_50) ==
    LET scored(terms, normalized_score) ==
            [signal     |-> signal_of(normalized_score),
             score      |-> normalized_score,
             confidence |-> IF Len(terms) > 0
                            THEN QDiv(QSum([i \in 1..Len(terms) |->
                                               QAbs(terms[i].score)]),
                                      QOfInt(Len(terms)))
                            ELSE QOfInt(0),
             components |-> [i \in 1..Len(terms) |->
                                [name |-> terms[i].name, score |-> terms[i].score]]]
        normalized(terms, total_score, total_weight) ==
            scored(terms, IF QSign(total_weight) > 0
                          THEN QDiv(total_score, total_weight)
                          ELSE QOfInt(0))
        summed(terms) ==
            normalized(terms,
                       QSum([i \in 1..Len(terms) |->
                                QMul(terms[i].score, terms[i].weight)]),
                       QSum([i \in 1..Len(terms) |-> terms[i].weight]))
    IN  summed(component_terms(price, rsi_, macd_, ema_20, ema_50))

\* ---------------------------------------------------------------------------
\* Trend regime (plugins/finance/extractors/regime.py) and QuantService.analyze
\* (quantgrid/services/quant_service.py)
\* ---------------------------------------------------------------------------
\* (mutant) an uptrend from a spread of 2% on
detect_trend_regime_from_2(prices, ema_short, ema_long) ==
    LET regime(price, short, long_, short_vs_long, strength) ==
            IF /\ QLt(short, price) /\ QLt(long_, short)
               /\ QLe(QFrac(2, 100), short_vs_long)
            THEN IF QLt(QFrac(1, 2), strength)
                 THEN <<"STRONG_UPTREND", strength>>
                 ELSE <<"UPTREND", strength>>
            ELSE IF /\ QLt(price, short) /\ QLt(short, long_)
                    /\ QLt(short_vs_long, QFrac(-2, 100))
            THEN IF QLt(QFrac(1, 2), strength)
                 THEN <<"STRONG_DOWNTREND", strength>>
                 ELSE <<"DOWNTREND", strength>>
            ELSE <<"SIDEWAYS", strength>>
        \* min(1.0, x)
        capped(x) == IF QLt(QOfInt(1), x) THEN QOfInt(1) ELSE x
        signals(price, short, long_, short_vs_long) ==
            regime(price, short, long_, short_vs_long,
                   capped(QMul(QAbs(short_vs_long), QOfInt(10))))
        latest(price, short, long_) ==
            IF IsNaN(short) \/ IsNaN(long_) THEN <<"SIDEWAYS", QOfInt(0)>>
            ELSE signals(price, short[1], long_[1],
                         IF ~QIsZero(long_[1])
                         THEN QDiv(QSub(short[1], long_[1]), long_[1])
                         ELSE QOfInt(0))
    IN  IF Len(prices) < 2 THEN <<"SIDEWAYS", QOfInt(0)>>
        ELSE latest(prices[Len(prices)][1], ema_short[Len(ema_short)],
                    ema_long[Len(ema_long)])

detect_trend_regime(prices, ema_short, ema_long) ==
    LET regime(price, short, long_, short_vs_long, strength) ==
            IF /\ QLt(short, price) /\ QLt(long_, short)
               /\ QLt(QFrac(2, 100), short_vs_long)
            THEN IF QLt(QFrac(1, 2), strength)
                 THEN <<"STRONG_UPTREND", strength>>
                 ELSE <<"UPTREND", strength>>
            ELSE IF /\ QLt(price, short) /\ QLt(short, long_)
                    /\ QLt(short_vs_long, QFrac(-2, 100))
            THEN IF QLt(QFrac(1, 2), strength)
                 THEN <<"STRONG_DOWNTREND", strength>>
                 ELSE <<"DOWNTREND", strength>>
            ELSE <<"SIDEWAYS", strength>>
        \* min(1.0, x)
        capped(x) == IF QLt(QOfInt(1), x) THEN QOfInt(1) ELSE x
        signals(price, short, long_, short_vs_long) ==
            regime(price, short, long_, short_vs_long,
                   capped(QMul(QAbs(short_vs_long), QOfInt(10))))
        latest(price, short, long_) ==
            IF IsNaN(short) \/ IsNaN(long_) THEN <<"SIDEWAYS", QOfInt(0)>>
            ELSE signals(price, short[1], long_[1],
                         IF ~QIsZero(long_[1])
                         THEN QDiv(QSub(short[1], long_[1]), long_[1])
                         ELSE QOfInt(0))
    IN  IF Len(prices) < 2 THEN <<"SIDEWAYS", QOfInt(0)>>
        ELSE latest(prices[Len(prices)][1], ema_short[Len(ema_short)],
                    ema_long[Len(ema_long)])

\* api/v1/market.py, the fallback fixture of the signals endpoint
SAMPLE_PRICES ==
    <<100, 102, 101, 103, 105, 104, 106, 108, 107, 109,
      111, 110, 112, 114, 113, 115, 117, 116, 118, 120,
      119, 121, 123, 122, 124, 126, 125, 127, 129, 128>>

\* prices: a list of integers, oldest first.  close[-1] of an empty list raises
\* IndexError.  The Bollinger, ATR and volatility fields (square roots and
\* logarithms) do not feed the composite and are left out of the result.
analyze(prices) ==
    IF prices = <<>>
    THEN [raised |-> TRUE]
    ELSE LET close == Array([i \in 1..Len(prices) |-> FOfInt(prices[i])])
             last  == Len(prices)
             result(ema_20_arr, ema_50_arr, rsi_arr, macd_arrs) ==
                 LET current_price   == close[last][1]
                     ema_20_val      == ema_20_arr[last]
                     ema_50_val      == ema_50_arr[last]
                     rsi_val         == rsi_arr[last]
                     macd_line_val   == macd_arrs[1][last]
                     macd_signal_val == macd_arrs[2][last]
                     macd_hist_val   == macd_arrs[3][last]
                     macd_tuple      == IF /\ macd_line_val # None
                                           /\ macd_signal_val # None
                                           /\ macd_hist_val # None
                                        THEN <<<<macd_line_val[1], macd_signal_val[1],
                                                 macd_hist_val[1]>>>>
                                        ELSE None
                     with_trend(trend) ==
                         [raised         |-> FALSE,
                          price          |-> current_price,
                          ema_20         |-> ema_20_val,
                          ema_50         |-> ema_50_val,
                          rsi_14         |-> rsi_val,
                          macd_line      |-> macd_line_val,
                          macd_signal    |-> macd_signal_val,
                          macd_histogram |-> macd_hist_val,
                          trend          |-> trend[1],
                          trend_strength |-> trend[2],
                          composite      |-> calculate_composite_score(current_price,
                                                 rsi_val, macd_tuple, ema_20_val,
                                                 ema_50_val)]
                 IN  with_trend(detect_trend_regime(close, ema_20_arr, ema_50_arr))
         IN  result(ema(close, 20), ema(close, 50), rsi(close, 14),
                    macd(close, 12, 26, 9))

\* ---------------------------------------------------------------------------
\* State
\* ---------------------------------------------------------------------------
VARIABLES
    \* clock and Bar Store
    now,            \* datetime.now(), minutes since a Monday 00:00 local time
    ticks,          \* how often the clock advanced
    store,          \* ohlcv table: set of rows, one per (timestamp, ticker, interval)
    \* TickerRegistry
    access_counts,  \* _access_counts: ticker -> count (absent = not in the dict)
    tiers,          \* _tiers: ticker -> tier
    last_access,    \* _last_access: ticker -> datetime of the last access
    \* get_market_data coroutines
    call,           \* coroutine slot -> frame of the get_market_data call in it
    calls_made,     \* how many calls were started
    last_done,      \* the call that returned last
    active,         \* the coroutine running between two awaits (0: event loop idle)
    request,        \* the asset class, interval and lookback the callers ask for
    \* incremental indicators fed bar by bar
    period,         \* the period the state machines were built with
    fed,            \* prices fed so far
    ind,            \* [ema, rsi, macd]: EMAState, RSIState, MACDState
    outs,           \* per fed index what update returned: [ema, rsi, macd]
    \* calculate_composite_score / QuantService.analyze
    score_in,       \* arguments of the last calculate_composite_score call, and the
                    \* histogram of the bar before
    score_out,      \* its CompositeScore
    prices_in,      \* argument of the last analyze call
    analysis,       \* its TechnicalAnalysis
    \* TickerRegistry on its own
    tier_out,       \* the count _calculate_tier was last applied to, and its tier
    redis_client,   \* _redis_client is set (TRUE) or None (FALSE)
    redis,          \* the key-value server: ticker -> [count, tier, expire_at]
    tasks,          \* _persist_to_redis tasks created and not yet run: their tickers
    last_task,      \* the last persistence or load: its outcome, and whether it logged
    restarts,       \* how often the process was started again
    \* a pure function applied to its arguments
    args,           \* the arguments
    ret,            \* <<the result>>
    \* MarketStateManager beyond get_market_data
    refresh,        \* refresh_hot_tier: its position and the hot tickers still to do
    refreshes,      \* how many refreshes were started
    initialized,    \* MarketStateManager._initialized
    req,            \* request -> its position, the keys it still loads, its slot
    loads,          \* how many times _load_from_redis was run
    overwrote       \* a load has replaced a count that record_access had updated

cacheVars == <<now, ticks, store, access_counts, tiers, last_access, call, calls_made,
               last_done, active, request>>
indVars   == <<period, fed, ind, outs>>
scoreVars == <<score_in, score_out>>
anaVars   == <<prices_in, analysis>>
regVars   == <<tier_out, redis_client, redis, tasks, last_task, restarts>>
pureVars  == <<args, ret>>
mgrVars   == <<refresh, refreshes, initialized, req, loads, overwrote>>
vars      == <<cacheVars, indVars, scoreVars, anaVars, regVars, pureVars, mgrVars>>

\* ---------------------------------------------------------------------------
\* Nothing applied, nothing refreshed
\* ---------------------------------------------------------------------------
PureIdle ==
    /\ args = <<>>
    /\ ret = <<>>

RefreshIdle == [pc |-> "idle", todo |-> <<>>, slot |-> 0]

StartIdle ==
    /\ initialized = FALSE
    /\ req = <<>>
    /\ loads = 0
    /\ overwrote = FALSE

MgrIdle ==
    /\ refresh = RefreshIdle
    /\ refreshes = 0
    /\ StartIdle

\* ---------------------------------------------------------------------------
\* Bounds
\* ---------------------------------------------------------------------------
MaxPeriod == 3
MaxLen    == 6
Prices    == {1, 2, 3}

\* ---------------------------------------------------------------------------
\* Incremental indicators: EMAState(p), RSIState(p) and MACDState(p, p + 1, p)
\* built once and fed one price at a time
\* ---------------------------------------------------------------------------
States(p) ==
    [ema |-> EMAState(p), rsi |-> RSIState(p), macd |-> MACDState(p, p + 1, p)]

States_update(self, price) ==
    LET updated(e, r, m) ==
            [st  |-> [ema |-> e.st, rsi |-> r.st, macd |-> m.st],
             out |-> [ema |-> e.out, rsi |-> r.out, macd |-> m.out]]
    IN  updated(EMAState_update(self.ema, price), RSIState_update(self.rsi, price),
                MACDState_update(self.macd, price))

IndIdle ==
    /\ period = 0
    /\ fed = <<>>
    /\ ind = <<>>
    /\ outs = <<>>

InitInd ==
    /\ period \in 1..MaxPeriod
    /\ fed = <<>>
    /\ ind = States(period)
    /\ outs = <<>>

Feed(price) ==
    /\ Len(fed) < MaxLen
    /\ LET updated(u) ==
               /\ ind' = u.st
               /\ outs' = Append(outs, u.out)
       IN  updated(States_update(ind, QOfInt(price)))
    /\ fed' = Append(fed, price)
    /\ UNCHANGED <<period, cacheVars, scoreVars, anaVars, regVars, pureVars, mgrVars>>

NextInd == \E price \in Prices : Feed(price)

\* the fed prices as a float array
FedArr == Array([i \in 1..Len(fed) |-> FOfInt(fed[i])])

\* ---------------------------------------------------------------------------
\* Market State Manager (services/market_state_manager.py)
\* Durations are minutes.
\* ---------------------------------------------------------------------------
Minute == 1
Hour   == 60 * Minute
Day    == 24 * Hour

AssetClass == {"equity", "crypto", "forex", "macro", "fundamentals", "news"}

TTLPolicy(trading, off, primary, fallbacks) ==
    [trading_hours_ttl |-> trading, off_hours_ttl |-> off,
     primary_source |-> primary, fallback_sources |-> fallbacks]

CACHE_POLICIES ==
    [a \in AssetClass |->
        CASE a = "equity"       -> TTLPolicy(15 * Minute, 24 * Hour, "yfinance",
                                             <<"alpha_vantage", "fmp">>)
          [] a = "crypto"       -> TTLPolicy(2 * Minute, 5 * Minute, "coingecko",
                                             <<"binance", "coinmarketcap">>)
          [] a = "forex"        -> TTLPolicy(5 * Minute, 15 * Minute, "yfinance",
                                             <<"twelve_data">>)
          [] a = "macro"        -> TTLPolicy(7 * Day, 30 * Day, "fred", <<>>)
          [] a = "fundamentals" -> TTLPolicy(7 * Day, 7 * Day, "fmp", <<"finnhub">>)
          [] a = "news"         -> TTLPolicy(1 * Hour, 1 * Hour, "newsapi", <<"finnhub">>)]

\* CACHE_POLICIES.get(asset_class, CACHE_POLICIES[AssetClass.EQUITY])
policy_of(asset_class) ==
    IF asset_class \in DOMAIN CACHE_POLICIES THEN CACHE_POLICIES[asset_class]
    ELSE CACHE_POLICIES["equity"]

TIER_HOT  == 50
TIER_WARM == 5
TIER_COLD == 1

\* (mutant) thresholds read as exclusive
_calculate_tier_exclusive(count) ==
    IF count > TIER_HOT THEN "hot"
    ELSE IF count > TIER_WARM THEN "warm"
    ELSE IF count > TIER_COLD THEN "cold"
    ELSE "frozen"

_calculate_tier(count) ==
    IF count >= TIER_HOT THEN "hot"
    ELSE IF count >= TIER_WARM THEN "warm"
    ELSE IF count >= TIER_COLD THEN "cold"
    ELSE "frozen"

\* str.upper() on the tickers the model uses
upper(t) ==
    CASE t = "aapl" -> "AAPL"
      [] t = "btc"  -> "BTC"
      [] OTHER      -> t

\* dict.get(key, default)
dict_get(d, k, default) == IF k \in DOMAIN d THEN d[k] ELSE default

\* dict[key] = value
dict_set(d, k, v) == [x \in DOMAIN d \cup {k} |-> IF x = k THEN v ELSE d[x]]

\* (mutant) the count is set to one instead of incremented
record_access_once(counts, trs, last, ticker0, t) ==
    LET ticker   == upper(ticker0)
        counts1  == dict_set(counts, ticker, 1)
        count    == counts1[ticker]
        new_tier == _calculate_tier(count)
        old_tier == dict_get(trs, ticker, "cold")
    IN  <<counts1, IF new_tier # old_tier THEN dict_set(trs, ticker, new_tier) ELSE trs,
          dict_set(last, ticker, t)>>

\* TickerRegistry.record_access at time t, in memory: <<_access_counts, _tiers,
\* _last_access>> afterwards
record_access(counts, trs, last, ticker0, t) ==
    LET ticker   == upper(ticker0)
        counts1  == dict_set(counts, ticker, dict_get(counts, ticker, 0) + 1)
        count    == counts1[ticker]
        new_tier == _calculate_tier(count)
        old_tier == dict_get(trs, ticker, "cold")
    IN  <<counts1, IF new_tier # old_tier THEN dict_set(trs, ticker, new_tier) ELSE trs,
          dict_set(last, ticker, t)>>

\* (mutant) the tier is looked up under the ticker as it was given
get_tier_as_given(trs, ticker) == dict_get(trs, ticker, "cold")

\* TickerRegistry.get_tier
get_tier(trs, ticker) == dict_get(trs, upper(ticker), "cold")

\* datetime.hour and datetime.weekday() (Monday = 0)
hour_of(t)    == (t \div Hour) % 24
weekday_of(t) == (t \div Day) % 7

\* (mutant) the trading window closes at 17:00
_get_current_ttl_until_17(asset_class, policy, t) ==
    IF asset_class = "crypto" THEN policy.trading_hours_ttl
    ELSE LET is_weekday       == weekday_of(t) < 5
             is_trading_hours == 9 <= hour_of(t) /\ hour_of(t) < 17
         IN  IF is_weekday /\ is_trading_hours THEN policy.trading_hours_ttl
             ELSE policy.off_hours_ttl

_get_current_ttl(asset_class, policy, t) ==
    IF asset_class = "crypto" THEN policy.trading_hours_ttl
    ELSE LET is_weekday       == weekday_of(t) < 5
             is_trading_hours == 9 <= hour_of(t) /\ hour_of(t) <= 17
         IN  IF is_weekday /\ is_trading_hours THEN policy.trading_hours_ttl
             ELSE policy.off_hours_ttl

\* ORDER BY timestamp DESC
RECURSIVE order_by_timestamp_desc(_)
order_by_timestamp_desc(S) ==
    IF S = {} THEN <<>>
    ELSE LET m == CHOOSE b \in S : \A o \in S : o.timestamp <= b.timestamp
         IN  <<m>> \o order_by_timestamp_desc(S \ {m})

\* the SELECT of _get_from_cache
select_rows(db, ticker, interval, cutoff_date) ==
    order_by_timestamp_desc(
        {r \in db : r.ticker = ticker /\ r.interval = interval
                    /\ r.timestamp >= cutoff_date})

\* the row dict both paths return; isoformat() of the timestamp is tagged "iso"
row_dict(row) ==
    [timestamp |-> <<"iso", row.timestamp>>, ticker |-> row.ticker,
     open |-> row.open, high |-> row.high, low |-> row.low, close |-> row.close,
     volume |-> row.volume, interval |-> row.interval]

\* (mutant) freshness judged by the oldest row of the window
_get_from_cache_oldest(db, t, ticker, asset_class, interval, lookback_days) ==
    LET policy           == policy_of(asset_class)
        ttl              == _get_current_ttl(asset_class, policy, t)
        cutoff_date      == t - lookback_days * Day
        freshness_cutoff == t - ttl
        rows             == select_rows(db, ticker, interval, cutoff_date)
    IN  IF rows = <<>> THEN <<>>
        ELSE IF rows[Len(rows)].timestamp < freshness_cutoff THEN <<>>
        ELSE [i \in 1..Len(rows) |-> row_dict(rows[i])]

\* <<>> stands for None
_get_from_cache(db, t, ticker, asset_class, interval, lookback_days) ==
    LET policy           == policy_of(asset_class)
        ttl              == _get_current_ttl(asset_class, policy, t)
        cutoff_date      == t - lookback_days * Day
        freshness_cutoff == t - ttl
        rows             == select_rows(db, ticker, interval, cutoff_date)
    IN  IF rows = <<>> THEN <<>>
        ELSE IF rows[1].timestamp < freshness_cutoff THEN <<>>
        ELSE [i \in 1..Len(rows) |-> row_dict(rows[i])]

\* sources = [policy.primary_source] + policy.fallback_sources
sources_of(asset_class) ==
    LET policy == policy_of(asset_class)
    IN  <<policy.primary_source>> \o policy.fallback_sources

\* (mutant) a plain INSERT into a table without the key
upsert_ohlcv_insert(db, data) == db \cup {data[i] : i \in DOMAIN data}

\* INSERT ... ON CONFLICT (timestamp, ticker, interval) DO UPDATE of open, high,
\* low, close, volume, adj_close and source; data holds one bar per key
RECURSIVE upsert_ohlcv(_, _)
upsert_ohlcv(db, data) ==
    IF data = <<>> THEN db
    ELSE LET b == Head(data)
             kept == {r \in db : ~(r.timestamp = b.timestamp /\ r.ticker = b.ticker
                                   /\ r.interval = b.interval)}
         IN  upsert_ohlcv(kept \cup {b}, Tail(data))

\* (mutant) a failed write is swallowed
_upsert_to_db_swallowed(db, data, ok) ==
    IF ok THEN [store |-> upsert_ohlcv(db, data), raised |-> FALSE]
    ELSE [store |-> db, raised |-> FALSE]

\* _upsert_to_db (lines 462-465) and upsert_ohlcv lines 66-74: execute and commit,
\* or rollback and raise again
_upsert_to_db(db, data, ok) ==
    IF ok THEN [store |-> upsert_ohlcv(db, data), raised |-> FALSE]
    ELSE [store |-> db, raised |-> TRUE]

\* ---------------------------------------------------------------------------
\* get_market_data as a coroutine: one action per stretch between two awaits,
\* the source loop one attempt at a time (the connector call blocks: no other
\* coroutine runs until the loop is left, which `active` records)
\* ---------------------------------------------------------------------------
MaxCalls == 2
MaxTicks == 1

\* two coroutines can be in flight at once
CallIds     == {1, 2}

\* lines 366-376 and 399-459: `await self._fetch_from_source(...)` never
\* suspends (the connector call is synchronous), so a coroutine in the source
\* loop keeps the event loop until it leaves the loop
keeps_loop(c, pc) == IF pc = "fetch" THEN c ELSE 0
Tickers     == {"aapl", "AAPL"}
CallClasses == {"equity", "macro"}
Intervals   == {"1d"}
Lookbacks   == {1, 30}
\* Friday 17:30, so that the clock can leave the trading hours
StartTimes  == {4 * Day + 17 * Hour + 30 * Minute}
TickSteps   == {20 * Minute}
\* the rows of hist_data["data"]: a well-formed candle and one whose high lies
\* below its low
ConnectorRows ==
    {[Open |-> 100, High |-> 110, Low |-> 90, Close |-> 105, Volume |-> 1000],
     [Open |-> 100, High |-> 95, Low |-> 98, Close |-> 105, Volume |-> 1000]}
\* what a connector returns: the ages of its bars and their candle
Histories ==
    {[ages |-> {0, 2 * Day}, row |-> r] : r \in {x \in ConnectorRows : x.High >= x.Low}}
    \cup {[ages |-> {1 * Hour}, row |-> r] : r \in ConnectorRows}

IdleFrame ==
    [pc |-> "idle", ticker |-> "", asset_class |-> "", interval |-> "",
     lookback_days |-> 0, force_refresh |-> FALSE,
     src_idx |-> 0, data |-> <<>>, result |-> <<>>, raised |-> FALSE,
     \* history of the call
     tried |-> <<>>, upserts |-> 0, write_failed |-> FALSE, checked_at |-> -1, fresh |-> FALSE,
     rows_seen |-> <<>>, follows_at |-> -1]

CacheIdle ==
    /\ now = 0
    /\ ticks = 0
    /\ store = {}
    /\ access_counts = <<>>
    /\ tiers = <<>>
    /\ last_access = <<>>
    /\ call = <<>>
    /\ calls_made = 0
    /\ last_done = <<>>
    /\ active = 0
    /\ request = <<>>

InitCache ==
    /\ now \in StartTimes
    /\ ticks = 0
    /\ store = {}
    /\ access_counts = <<>>
    /\ tiers = <<>>
    /\ last_access = <<>>
    /\ call = [c \in CallIds |-> IdleFrame]
    /\ calls_made = 0
    /\ last_done = <<>>
    /\ active = 0
    /\ request \in [asset_class : CallClasses, interval : Intervals,
                     lookback_days : Lookbacks]

\* the request of frame f is the request of frame g
SameRequest(f, g) ==
    /\ f.ticker = g.ticker
    /\ f.asset_class = g.asset_class
    /\ f.interval = g.interval
    /\ f.lookback_days = g.lookback_days

\* the last call to return missed, fetched and stored its bars at this very instant, no
\* call is in flight, and it was the same request
JustStored(f) ==
    /\ last_done # <<>>
    /\ last_done[1].missed
    /\ last_done[1].upserts = 1
    /\ ~last_done[1].raised
    /\ last_done[1].done_at = now
    /\ SameRequest(last_done[1], f)
    /\ \A d \in CallIds : call[d].pc = "idle"

\* what is remembered of a call that returned
Summary(f) == <<[ticker |-> f.ticker, asset_class |-> f.asset_class,
                 interval |-> f.interval, lookback_days |-> f.lookback_days,
                 missed |-> f.checked_at >= 0 /\ f.tried # <<>>,
                 upserts |-> f.upserts, raised |-> f.raised, done_at |-> now]>>

\* lines 269-275: upper, record_access (which leaves the persistence to a task
\* when a client is set), then the cache check or the forced fetch, on a registry
\* that holds counts, trs and last; what the caller keeps of its own (mgrVars) is
\* left to the caller
EnterGetMarketData(c, counts, trs, last, ticker0, asset_class, interval, lookback_days, force_refresh) ==
    /\ active = 0
    /\ call[c].pc = "idle"
    /\ \A d \in CallIds : d < c => call[d].pc # "idle"
    /\ calls_made < MaxCalls
    /\ LET ticker == upper(ticker0)
           reg    == record_access(counts, trs, last, ticker, now)
           f      == [IdleFrame EXCEPT !.ticker = ticker,
                                       !.asset_class = asset_class,
                                       !.interval = interval,
                                       !.lookback_days = lookback_days,
                                       !.force_refresh = force_refresh,
                                       !.src_idx = 1,
                                       !.pc = IF force_refresh THEN "fetch" ELSE "cache"]
       IN  /\ access_counts' = reg[1]
           /\ tiers' = reg[2]
           /\ last_access' = reg[3]
           /\ call' = [call EXCEPT ![c] =
                          [f EXCEPT !.follows_at = IF JustStored(f) /\ ~force_refresh
                                                   THEN now ELSE -1]]
           /\ active' = keeps_loop(c, f.pc)
    /\ calls_made' = calls_made + 1
    /\ tasks' = IF redis_client THEN Append(tasks, upper(ticker0)) ELSE tasks
    /\ UNCHANGED <<now, ticks, store, last_done, request, indVars, scoreVars, anaVars,
                   tier_out, redis, last_task, restarts, pureVars>>

\* get_market_data on the registry as it is
GetMarketData(c, ticker0, asset_class, interval, lookback_days, force_refresh) ==
    /\ EnterGetMarketData(c, access_counts, tiers, last_access, ticker0, asset_class,
                          interval, lookback_days, force_refresh)
    /\ UNCHANGED redis_client

\* the claim's reading of "fresh": some stored bar of (ticker, interval) lies in
\* the lookback window and the newest such bar is no older than the TTL
FreshInStore(f) ==
    LET inWindow == {r \in store : /\ r.ticker = f.ticker
                                   /\ r.interval = f.interval
                                   /\ r.timestamp >= now - f.lookback_days * Day}
        ttl      == _get_current_ttl(f.asset_class, policy_of(f.asset_class), now)
    IN  /\ inWindow # {}
        /\ \E r \in inWindow : /\ \A o \in inWindow : o.timestamp <= r.timestamp
                               /\ r.timestamp >= now - ttl

\* lines 276-284: the awaited SELECT returns; hit -> return, miss -> source loop
CacheResult(c) ==
    /\ active = 0
    /\ call[c].pc = "cache"
    /\ LET f           == call[c]
           cached_data == _get_from_cache(store, now, f.ticker, f.asset_class,
                                          f.interval, f.lookback_days)
           g           == [f EXCEPT !.checked_at = now,
                                    !.fresh = FreshInStore(f),
                                    !.rows_seen = select_rows(store, f.ticker, f.interval,
                                                     now - f.lookback_days * Day)]
       IN  IF cached_data # <<>>
           THEN /\ call' = [call EXCEPT ![c] =
                               [g EXCEPT !.pc = "done", !.result = cached_data]]
                /\ active' = keeps_loop(c, "done")
           ELSE /\ call' = [call EXCEPT ![c] = [g EXCEPT !.pc = "fetch"]]
                /\ active' = keeps_loop(c, "fetch")
    /\ UNCHANGED <<now, ticks, store, access_counts, tiers, last_access, calls_made,
                   last_done, request, indVars, scoreVars, anaVars, regVars, pureVars, mgrVars>>

\* lines 420-427: the connector _fetch_from_source calls for a source
connector_of(source) == "yfinance"

\* what one _fetch_from_source call can do: raise (line 412), return None
\* (lines 431, 459), return an empty list (every row skipped) or the bars
Outcomes == {"raise", "none", "empty", "bars"}

\* lines 433-455: the OHLCV objects built from the connector's rows, oldest first
RECURSIVE ohlcv_list(_, _, _, _, _)
ohlcv_list(ticker, source, interval, stamps, row) ==
    IF stamps = {} THEN <<>>
    ELSE LET t == CHOOSE x \in stamps : \A y \in stamps : x <= y
         IN  <<[timestamp |-> t, ticker |-> upper(ticker), interval |-> interval,
                open |-> row.Open, high |-> row.High, low |-> row.Low,
                close |-> row.Close, volume |-> row.Volume, adj_close |-> row.Close,
                source |-> source]>>
             \o ohlcv_list(ticker, source, interval, stamps \ {t}, row)

\* (mutant) the loop without its break
loop_after_nobreak(data, src_idx, sources) ==
    IF src_idx < Len(sources) THEN "continue"
    ELSE "exhausted"

\* lines 371-376: what the loop does after an attempt that left `data`
loop_after(data, src_idx, sources) ==
    IF data # <<>> THEN "break"
    ELSE IF src_idx < Len(sources) THEN "continue"
    ELSE "exhausted"

\* (mutant) an exhausted chain raises instead of returning []
after_loop_raise(data) == IF data = <<>> THEN "raise" ELSE "upsert"

\* lines 378-383: after the loop
after_loop(data) == IF data = <<>> THEN "return_empty" ELSE "upsert"

\* lines 366-383: one iteration of the source loop and, when it was the last, the
\* code after the loop up to the awaited upsert
FetchFromSource(c, outcome, stamps, row) ==
    /\ call[c].pc = "fetch"
    /\ active = keeps_loop(c, call[c].pc)
    /\ LET f       == call[c]
           sources == sources_of(f.asset_class)
           source  == sources[f.src_idx]
           data    == CASE outcome = "raise" -> f.data
                        [] outcome = "bars"  -> ohlcv_list(f.ticker, source, f.interval,
                                                           stamps, row)
                        [] OTHER             -> <<>>
           g       == [f EXCEPT !.data = data,
                                !.tried = Append(f.tried,
                                                 [source |-> source,
                                                  connector |-> connector_of(source),
                                                  ok |-> outcome = "bars"])]
           go      == loop_after(data, f.src_idx, sources)
       IN  IF go = "continue"
           THEN /\ call' = [call EXCEPT ![c] = [g EXCEPT !.src_idx = f.src_idx + 1]]
                /\ active' = keeps_loop(c, "fetch")
           ELSE /\ active' = keeps_loop(c, "upsert")
                /\ CASE after_loop(data) = "return_empty" ->
                          call' = [call EXCEPT ![c] =
                                      [g EXCEPT !.pc = "done", !.result = <<>>]]
                     [] after_loop(data) = "upsert" ->
                          call' = [call EXCEPT ![c] = [g EXCEPT !.pc = "upsert"]]
                     [] OTHER ->
                          call' = [call EXCEPT ![c] =
                                      [g EXCEPT !.pc = "done", !.raised = TRUE]]
    /\ UNCHANGED <<now, ticks, store, access_counts, tiers, last_access, calls_made,
                   last_done, request, indVars, scoreVars, anaVars, regVars, pureVars, mgrVars>>

\* lines 383-397 and market_data_service.upsert_ohlcv: the awaited INSERT commits
\* and the rows are returned, or it fails, is rolled back and the error propagates
Upsert(c, ok) ==
    /\ active = 0
    /\ call[c].pc = "upsert"
    /\ LET f == [call[c] EXCEPT !.write_failed = ~ok]
           w == _upsert_to_db(store, f.data, ok)
       IN  /\ store' = w.store
           /\ IF w.raised
              THEN call' = [call EXCEPT ![c] = [f EXCEPT !.pc = "done", !.raised = TRUE]]
              ELSE call' = [call EXCEPT ![c] =
                              [f EXCEPT !.pc = "done", !.upserts = f.upserts + 1,
                                        !.result = [i \in 1..Len(f.data) |->
                                                       row_dict(f.data[i])]]]
    /\ UNCHANGED <<now, ticks, access_counts, tiers, last_access, calls_made, last_done,
                   active, request, indVars, scoreVars, anaVars, regVars, pureVars, mgrVars>>

\* the coroutine hands its result (or its exception) to the caller and ends
\* the call returns to its caller (mgrVars are the caller's)
Return(c) ==
    /\ active = 0
    /\ call[c].pc = "done"
    /\ last_done' = Summary(call[c])
    /\ call' = [call EXCEPT ![c] = IdleFrame]
    /\ UNCHANGED <<now, ticks, store, access_counts, tiers, last_access, calls_made,
                   active, request, indVars, scoreVars, anaVars, regVars, pureVars>>

\* time passes; the clock step is long against the latency of one call (bounded
\* by sources x connector timeout), so it falls between calls
Tick(d) ==
    /\ ticks < MaxTicks
    /\ \A c \in CallIds : call[c].pc = "idle"
    /\ now' = now + d
    /\ ticks' = ticks + 1
    /\ UNCHANGED <<store, access_counts, tiers, last_access, call, calls_made, last_done,
                   active, request, indVars, scoreVars, anaVars, regVars, pureVars, mgrVars>>

NextCache ==
    \/ \E c \in CallIds, t \in Tickers, fr \in BOOLEAN :
          /\ GetMarketData(c, t, request.asset_class, request.interval,
                           request.lookback_days, fr)
          /\ UNCHANGED mgrVars
    \/ \E c \in CallIds : CacheResult(c)
    \/ \E c \in CallIds, o \in Outcomes \ {"bars"} : FetchFromSource(c, o, {}, <<>>)
    \/ \E c \in CallIds, h \in Histories :
          FetchFromSource(c, "bars", {now - a : a \in h.ages}, h.row)
    \/ \E c \in CallIds, ok \in BOOLEAN : Upsert(c, ok)
    \/ \E c \in CallIds : Return(c) /\ UNCHANGED mgrVars
    \/ \E d \in TickSteps : Tick(d)

\* ---------------------------------------------------------------------------
\* One call of calculate_composite_score
\* ---------------------------------------------------------------------------
ScorePrices == {2, 4}
ScoreRsi    == {20, 35, 50, 65, 80}
ScoreEma    == {1, 2, 3}
ScoreMacd   == {<<1, 0, 1>>, <<-1, 0, -1>>, <<0, 0, 0>>}
\* the MACD histogram of the bar before the one that is scored
ScorePrevHistogram == {-1, 1}

Opt(S) == {None} \cup {<<QOfInt(x)>> : x \in S}

ScoreIdle ==
    /\ score_in = <<>>
    /\ score_out = <<>>

InitScore ==
    /\ score_in \in [price  : {QOfInt(x) : x \in ScorePrices},
                     rsi    : Opt(ScoreRsi),
                     macd   : {None} \cup {<<<<QOfInt(m[1]), QOfInt(m[2]), QOfInt(m[3])>>>> :
                                              m \in ScoreMacd},
                     ema_20 : Opt(ScoreEma),
                     ema_50 : Opt(ScoreEma),
                     prev_histogram : {QOfInt(x) : x \in ScorePrevHistogram}]
    /\ score_out = <<>>

\* score_out becomes <<the CompositeScore>>
Score ==
    /\ score_out = <<>>
    /\ score_out' = <<calculate_composite_score(score_in.price, score_in.rsi,
                          score_in.macd, score_in.ema_20, score_in.ema_50)>>
    /\ UNCHANGED <<score_in, cacheVars, indVars, anaVars, regVars, pureVars, mgrVars>>

NextScore == Score

\* ---------------------------------------------------------------------------
\* One call of QuantService.analyze
\* ---------------------------------------------------------------------------
MaxShort    == 4
ShortPrices == {1, 2, 3}

\* price histories: the prefixes of the fixture and every short history
AnalyzeInputs ==
    {SubSeq(SAMPLE_PRICES, 1, n) : n \in 0..Len(SAMPLE_PRICES)}
    \cup UNION {[1..n -> ShortPrices] : n \in 0..MaxShort}

AnaIdle ==
    /\ prices_in = <<>>
    /\ analysis = <<>>

InitAna ==
    /\ prices_in \in AnalyzeInputs
    /\ analysis = <<>>

\* analysis becomes <<the TechnicalAnalysis>>
Analyze ==
    /\ analysis = <<>>
    /\ analysis' = <<analyze(prices_in)>>
    /\ UNCHANGED <<prices_in, cacheVars, indVars, scoreVars, regVars, pureVars, mgrVars>>

NextAna == Analyze

\* ---------------------------------------------------------------------------
\* TickerRegistry on its own (memory only): accesses recorded one after another,
\* and _calculate_tier applied to a count
\* ---------------------------------------------------------------------------
MaxCount == 51
\* a second ticker, accessed a few times or never
MaxOther     == 5
OtherTickers == {"btc", "BTC"}

RegIdle ==
    /\ tier_out = <<>>
    /\ redis_client = FALSE
    /\ redis = <<>>
    /\ tasks = <<>>
    /\ last_task = <<>>
    /\ restarts = 0

\* await registry.record_access(ticker): no await inside, so one step; the
\* persistence is left to a task when a client is set (lines 167-169)
RecordAccess(ticker, max) ==
    /\ dict_get(access_counts, upper(ticker), 0) < max
    /\ LET reg == record_access(access_counts, tiers, last_access, ticker, now)
       IN  /\ access_counts' = reg[1]
           /\ tiers' = reg[2]
           /\ last_access' = reg[3]
    /\ tasks' = IF redis_client THEN Append(tasks, upper(ticker)) ELSE tasks
    /\ UNCHANGED <<now, ticks, store, call, calls_made, last_done, active, request,
                   indVars, scoreVars, anaVars,
                   tier_out, redis_client, redis, last_task, restarts,
                   pureVars, mgrVars>>

\* tier_out becomes <<count, its tier>>
CalculateTier(count) ==
    /\ tier_out' = <<count, _calculate_tier(count)>>
    /\ UNCHANGED <<cacheVars, indVars, scoreVars, anaVars,
                   redis_client, redis, tasks, last_task, restarts,
                   pureVars, mgrVars>>

NextTier ==
    \/ \E t \in Tickers : RecordAccess(t, MaxCount)
    \/ \E t \in OtherTickers : RecordAccess(t, MaxOther)
    \/ \E n \in 0..MaxCount : CalculateTier(n)

\* ---------------------------------------------------------------------------
\* TickerRegistry with its key-value persistence, over days and restarts
\* ---------------------------------------------------------------------------
MaxAccesses == 6
MaxSleeps   == 2
MaxRestarts == 1
SleepDays   == {3, 8}

\* expire(key, 7 * 24 * 3600)
REDIS_TTL == 7 * Day
\* a key without a time to live
NoExpiry == -1

\* the keys the server still holds at time t
live(kv, t) ==
    [k \in {x \in DOMAIN kv : kv[x].expire_at = NoExpiry \/ kv[x].expire_at > t} |-> kv[k]]

PersistOutcomes == {"ok", "hset_raises", "expire_raises"}

\* (mutant) _persist_to_redis without its except clause: nothing is logged
_persist_to_redis_unguarded(kv, counts, trs, ticker, t, outcome) ==
    LET held    == live(kv, t)
        old_exp == IF ticker \in DOMAIN held THEN held[ticker].expire_at ELSE NoExpiry
        rec(e)  == [count |-> dict_get(counts, ticker, 0),
                    tier |-> dict_get(trs, ticker, "cold"), expire_at |-> e]
    IN  CASE outcome = "hset_raises"   -> [redis |-> held, logged |-> FALSE]
          [] outcome = "expire_raises" ->
                [redis |-> dict_set(held, ticker, rec(old_exp)), logged |-> FALSE]
          [] OTHER ->
                [redis |-> dict_set(held, ticker, rec(t + REDIS_TTL)), logged |-> FALSE]

\* lines 171-181: hset of the current count and tier, then expire; an exception
\* of either await is caught and logged
_persist_to_redis(kv, counts, trs, ticker, t, outcome) ==
    LET held    == live(kv, t)
        old_exp == IF ticker \in DOMAIN held THEN held[ticker].expire_at ELSE NoExpiry
        rec(e)  == [count |-> dict_get(counts, ticker, 0),
                    tier |-> dict_get(trs, ticker, "cold"), expire_at |-> e]
    IN  CASE outcome = "hset_raises"   -> [redis |-> held, logged |-> TRUE]
          [] outcome = "expire_raises" ->
                [redis |-> dict_set(held, ticker, rec(old_exp)), logged |-> TRUE]
          [] OTHER ->
                [redis |-> dict_set(held, ticker, rec(t + REDIS_TTL)), logged |-> FALSE]

\* lines 141-153: the counts and tiers of the keys the server holds, or nothing
\* when the server cannot be reached (logged)
_load_from_redis(kv, t, ok) ==
    LET held == live(kv, t)
    IN  IF ok THEN [counts |-> [k \in DOMAIN held |-> held[k].count],
                    tiers |-> [k \in DOMAIN held |-> held[k].tier], logged |-> FALSE]
        ELSE [counts |-> <<>>, tiers |-> <<>>, logged |-> TRUE]

\* a task created by record_access runs to its end
Persist(i, outcome) ==
    /\ i \in DOMAIN tasks
    /\ LET p == _persist_to_redis(redis, access_counts, tiers, tasks[i], now, outcome)
       IN  /\ redis' = p.redis
           /\ last_task' = <<[what |-> "persist", outcome |-> outcome,
                             logged |-> p.logged]>>
    /\ tasks' = SubSeq(tasks, 1, i - 1) \o SubSeq(tasks, i + 1, Len(tasks))
    /\ UNCHANGED <<cacheVars, indVars, scoreVars, anaVars,
                   tier_out, redis_client, restarts,
                   pureVars, mgrVars>>

\* days pass without an access
Sleep(days) ==
    /\ ticks < MaxSleeps
    /\ now' = now + days * Day
    /\ ticks' = ticks + 1
    /\ UNCHANGED <<store, access_counts, tiers, last_access, call, calls_made, last_done,
                   active, request, indVars, scoreVars, anaVars, regVars, pureVars, mgrVars>>

StartOutcomes == {"no_redis", "load_fails", "loaded"}

\* the process is started again: TickerRegistry.__init__, then init_redis
\* (lines 121-133); the tasks of the old process are gone
Restart(outcome) ==
    /\ restarts < MaxRestarts
    /\ restarts' = restarts + 1
    /\ redis_client' = (outcome # "no_redis")
    /\ LET l == IF outcome = "no_redis"
                THEN [counts |-> <<>>, tiers |-> <<>>, logged |-> TRUE]
                ELSE _load_from_redis(redis, now, outcome = "loaded")
       IN  /\ access_counts' = l.counts
           /\ tiers' = l.tiers
           /\ last_task' = <<[what |-> "load", outcome |-> outcome, logged |-> l.logged]>>
    /\ last_access' = <<>>
    /\ tasks' = <<>>
    /\ UNCHANGED <<now, ticks, store, call, calls_made, last_done, active, request,
                   indVars, scoreVars, anaVars, tier_out, redis,
                   pureVars, mgrVars>>

InitReg ==
    /\ tier_out = <<>>
    /\ redis_client \in BOOLEAN
    /\ redis = <<>>
    /\ tasks = <<>>
    /\ last_task = <<>>
    /\ restarts = 0

NextRegistry ==
    \/ \E t \in Tickers : RecordAccess(t, MaxAccesses)
    \/ \E i \in DOMAIN tasks, o \in PersistOutcomes : Persist(i, o)
    \/ \E d \in SleepDays : Sleep(d)
    \/ \E o \in StartOutcomes : Restart(o)

\* ---------------------------------------------------------------------------
\* MarketStateManager._infer_asset_class
\* Here a ticker is the sequence of its characters
\* ---------------------------------------------------------------------------
UpperCase == <<"A", "B", "C", "D", "E", "F", "G", "H", "I", "J", "K", "L", "M", "N", "O", "P", "Q", "R", "S", "T", "U", "V", "W", "X", "Y", "Z">>
LowerCase == <<"a", "b", "c", "d", "e", "f", "g", "h", "i", "j", "k", "l", "m", "n", "o", "p", "q", "r", "s", "t", "u", "v", "w", "x", "y", "z">>

\* str.upper() of one character
upper_char(ch) ==
    IF \E i \in DOMAIN LowerCase : LowerCase[i] = ch
    THEN UpperCase[CHOOSE i \in DOMAIN LowerCase : LowerCase[i] = ch]
    ELSE ch

\* str.upper()
str_upper(s) == Array([i \in 1..Len(s) |-> upper_char(s[i])])

\* str.endswith(suffixes)
endswith(s, suffixes) ==
    \E x \in suffixes :
        /\ Len(x) <= Len(s)
        /\ SubSeq(s, Len(s) - Len(x) + 1, Len(s)) = x

\* s[:n]
str_prefix(s, n) == SubSeq(s, 1, IF Len(s) < n THEN Len(s) ELSE n)

CryptoSuffixes == {<<"U", "S", "D", "T">>, <<"U", "S", "D">>, <<"B", "T", "C">>, <<"E", "T", "H">>}
CryptoSymbols  == {<<"B", "T", "C">>, <<"E", "T", "H">>, <<"S", "O", "L">>}
ForexPrefixes  == {<<"E", "U", "R">>, <<"U", "S", "D">>, <<"G", "B", "P">>, <<"J", "P", "Y">>, <<"A", "U", "D">>, <<"C", "A", "D">>}
MacroSymbols   == {<<"G", "D", "P">>, <<"C", "P", "I">>, <<"U", "N", "R", "A", "T", "E">>, <<"F", "E", "D", "F", "U", "N", "D", "S">>, <<"V", "I", "X">>}

_infer_asset_class(ticker0) ==
    LET ticker == str_upper(ticker0)
    IN  IF endswith(ticker, CryptoSuffixes) \/ ticker \in CryptoSymbols THEN "crypto"
        ELSE IF Len(ticker) = 6 /\ str_prefix(ticker, 3) \in ForexPrefixes THEN "forex"
        ELSE IF ticker \in MacroSymbols THEN "macro"
        ELSE "equity"

\* the tickers classified: a head and a tail joined, and the macro symbols
InferHeads == {<<>>, <<"E", "U", "R">>, <<"U", "S", "D">>, <<"G", "B", "P">>, <<"J", "P", "Y">>, <<"A", "U", "D">>, <<"C", "A", "D">>, <<"B", "T", "C">>, <<"S", "O", "L">>, <<"A", "A", "P">>, <<"e", "u", "r">>, <<"M", "S">>}
InferTails == {<<>>, <<"U", "S", "D">>, <<"J", "P", "Y">>, <<"C", "H", "F">>, <<"U", "S", "D", "T">>, <<"B", "T", "C">>, <<"E", "T", "H">>, <<"L">>, <<"u", "s", "d">>, <<"F", "T">>}
InferInputs ==
    {h \o t : h \in InferHeads, t \in InferTails} \cup MacroSymbols \cup {<<"v", "i", "x">>, <<"G", "d", "p">>}

InitInfer ==
    /\ args \in InferInputs
    /\ ret = <<>>

InferAssetClass ==
    /\ ret = <<>>
    /\ ret' = <<_infer_asset_class(args)>>
    /\ UNCHANGED <<args, cacheVars, indVars, scoreVars, anaVars, regVars, mgrVars>>

NextInfer == InferAssetClass

\* ---------------------------------------------------------------------------
\* IndicatorState: the four indicators of one ticker with the periods it is
\* built with, fed one price history
\* ---------------------------------------------------------------------------
IndicatorState ==
    [ema_20 |-> EMAState(20), ema_50 |-> EMAState(50), rsi_14 |-> RSIState(14),
     macd |-> MACDState(12, 26, 9)]

IndicatorState_update(self, price) ==
    LET updated(e20, e50, r, m) ==
            [st  |-> [ema_20 |-> e20.st, ema_50 |-> e50.st, rsi_14 |-> r.st,
                      macd |-> m.st],
             out |-> [ema_20 |-> e20.out, ema_50 |-> e50.out, rsi_14 |-> r.out,
                      macd |-> m.out]]
    IN  updated(EMAState_update(self.ema_20, price), EMAState_update(self.ema_50, price),
                RSIState_update(self.rsi_14, price), MACDState_update(self.macd, price))

MaxUpdates == 52

\* the histories fed: flat, rising, and two that rise and fall
PriceHistories ==
    {[i \in 1..(MaxUpdates + 1) |-> 7],
     [i \in 1..(MaxUpdates + 1) |-> i],
     [i \in 1..(MaxUpdates + 1) |-> 2 + (i % 2)],
     [i \in 1..(MaxUpdates + 1) |-> (i % 3) * 5]}

InitState ==
    /\ period = 0
    /\ fed = <<>>
    /\ ind = IndicatorState
    /\ outs = <<>>
    /\ args \in PriceHistories
    /\ ret = <<>>

\* state.update(price) with the next price of the history
Update ==
    /\ Len(fed) < MaxUpdates
    /\ LET price == args[Len(fed) + 1]
           updated(u) ==
               /\ ind' = u.st
               /\ outs' = Append(outs, u.out)
       IN  /\ updated(IndicatorState_update(ind, QOfInt(price)))
           /\ fed' = Append(fed, price)
    /\ UNCHANGED <<period, args, ret, cacheVars, scoreVars, anaVars, regVars, mgrVars>>

NextState == Update

\* ---------------------------------------------------------------------------
\* detect_trend_regime on the last price and the last values of the two EMAs
\* ---------------------------------------------------------------------------
RegimeLengths == {0, 1, 2, 5}
RegimePrices  == {87, 96, 100, 104, 107, 113}
\* around a long EMA of 100: spreads of 2%, 5% and 10% and their neighbours
RegimeShorts  == {88, 90, 94, 95, 97, 98, 99, 100, 101, 102, 103, 105, 106, 110, 112}
RegimeLongs   == {50, 100}

\* <<x>> for the value x, <<>> for NaN
OrNaN(values) == {<<x>> : x \in values} \cup {NaN}

InitRegime ==
    /\ args \in [n : RegimeLengths, price : RegimePrices,
                  short : OrNaN(RegimeShorts), long_ : OrNaN(RegimeLongs)]
    /\ ret = <<>>

\* arrays of n values that end with the value drawn
DetectTrendRegime ==
    /\ ret = <<>>
    /\ LET float(x) == IF IsNaN(x) THEN NaN ELSE FOfInt(x[1])
           arr(x)   == Array([i \in 1..args.n |-> float(x)])
       IN  ret' = <<detect_trend_regime(arr(<<args.price>>), arr(args.short),
                                        arr(args.long_))>>
    /\ UNCHANGED <<args, cacheVars, indVars, scoreVars, anaVars, regVars, mgrVars>>

NextRegime == DetectTrendRegime

\* ---------------------------------------------------------------------------
\* MarketStateManager.refresh_hot_tier, the scheduled refresh, on a registry that
\* holds the counts of the week
\* ---------------------------------------------------------------------------
MaxRefreshes == 1

\* the characters of the tickers of the registry
chars(t) ==
    CASE t = "AAPL" -> <<"A", "A", "P", "L">>
      [] t = "BTC"  -> <<"B", "T", "C">>
      [] t = "MSFT" -> <<"M", "S", "F", "T">>

\* the order in which the tickers entered the dicts of the registry
Inserted == <<"AAPL", "BTC", "MSFT">>

\* TickerRegistry.get_hot_tickers
get_hot_tickers(trs) ==
    LET is_hot(t) == t \in DOMAIN trs /\ trs[t] = "hot"
    IN  SelectSeq(Inserted, is_hot)

\* the counts of the week: AAPL is hot, BTC hot or warm, MSFT warm
WeekCounts ==
    {[t \in {"AAPL", "BTC", "MSFT"} |->
         CASE t = "AAPL" -> a [] t = "BTC" -> b [] t = "MSFT" -> 5] :
     a \in {50, 70}, b \in {7, 50}}

InitRefresh ==
    /\ now \in StartTimes
    /\ ticks = 0
    /\ store = {}
    /\ access_counts \in WeekCounts
    /\ tiers = [t \in DOMAIN access_counts |-> _calculate_tier(access_counts[t])]
    /\ last_access = <<>>
    /\ call = [c \in CallIds |-> IdleFrame]
    /\ calls_made = 0
    /\ last_done = <<>>
    /\ active = 0
    /\ request = <<>>
    /\ refresh = RefreshIdle
    /\ refreshes = 0
    /\ StartIdle

\* lines 508-516: the hot tickers are listed and get_market_data is entered for
\* the first of them, with the class inferred, the default interval and lookback
\* and force_refresh=True
RefreshHotTier(c) ==
    /\ refresh.pc = "idle"
    /\ refreshes < MaxRefreshes
    /\ LET tickers == get_hot_tickers(tiers)
       IN  /\ tickers # <<>>
           /\ GetMarketData(c, Head(tickers), _infer_asset_class(chars(Head(tickers))),
                            "1d", 30, TRUE)
           /\ refresh' = [pc |-> "await", todo |-> Tail(tickers), slot |-> c]
    /\ refreshes' = refreshes + 1
    /\ UNCHANGED <<initialized, req, loads, overwrote>>

\* lines 516-519: the awaited call returns, or raises and is logged
RefreshReturn ==
    /\ refresh.pc = "await"
    /\ Return(refresh.slot)
    /\ refresh' = IF refresh.todo = <<>> THEN RefreshIdle
                  ELSE [refresh EXCEPT !.pc = "next", !.slot = 0]
    /\ UNCHANGED <<refreshes, initialized, req, loads, overwrote>>

\* lines 511-516: the loop goes on with the next hot ticker
RefreshNext(c) ==
    /\ refresh.pc = "next"
    /\ GetMarketData(c, Head(refresh.todo),
                     _infer_asset_class(chars(Head(refresh.todo))), "1d", 30, TRUE)
    /\ refresh' = [pc |-> "await", todo |-> Tail(refresh.todo), slot |-> c]
    /\ UNCHANGED <<refreshes, initialized, req, loads, overwrote>>

NextRefresh ==
    \/ \E c \in CallIds : RefreshHotTier(c)
    \/ RefreshReturn
    \/ \E c \in CallIds : RefreshNext(c)
    \/ \E c \in CallIds, o \in Outcomes \ {"bars"} : FetchFromSource(c, o, {}, <<>>)
    \/ \E c \in CallIds, h \in Histories :
          FetchFromSource(c, "bars", {now - a : a \in h.ages}, h.row)
    \/ \E c \in CallIds, ok \in BOOLEAN : Upsert(c, ok)
    \/ \E d \in TickSteps : Tick(d)

\* ---------------------------------------------------------------------------
\* The first requests after a start: each runs
\*     if not market_state_manager._initialized: await market_state_manager.initialize()
\* and then get_market_data (api/v1/market.py, agents/market_analyst.py).  The
\* key-value server is installed and holds what the last process persisted.
\* ---------------------------------------------------------------------------
Requests == {1, 2}

NewRequest == [pc |-> "new", todo |-> <<>>, slot |-> 0]

\* what the server holds at the start
StoredKeys ==
    LET rec(count) == [count |-> count, tier |-> _calculate_tier(count),
                       expire_at |-> 4 * Day + 17 * Hour + 30 * Minute + 3 * Day]
    IN  {<<>>, [t \in {"AAPL"} |-> rec(7)],
         [t \in {"AAPL", "BTC"} |-> rec(IF t = "AAPL" THEN 7 ELSE 50)]}

InitStart ==
    /\ now \in StartTimes
    /\ ticks = 0
    /\ store = {}
    /\ access_counts = <<>>
    /\ tiers = <<>>
    /\ last_access = <<>>
    /\ call = [c \in CallIds |-> IdleFrame]
    /\ calls_made = 0
    /\ last_done = <<>>
    /\ active = 0
    /\ request = <<>>
    /\ tier_out = <<>>
    /\ redis_client = FALSE
    /\ redis \in StoredKeys
    /\ tasks = <<>>
    /\ last_task = <<>>
    /\ restarts = 0
    /\ refresh = RefreshIdle
    /\ refreshes = 0
    /\ initialized = FALSE
    /\ req = [r \in Requests |-> NewRequest]
    /\ loads = 0
    /\ overwrote = FALSE

\* the endpoint's call of get_market_data for AAPL, on a registry that holds
\* counts and trs, in slot c
RequestEnters(r, c, counts, trs) ==
    /\ EnterGetMarketData(c, counts, trs, last_access, "AAPL",
                          _infer_asset_class(chars("AAPL")), "1d", 30, FALSE)
    /\ req' = [req EXCEPT ![r] = [pc |-> "call", todo |-> <<>>, slot |-> c]]

\* the manager is initialized: the request goes on to get_market_data
ArriveInitialized(r, c) ==
    /\ req[r].pc = "new"
    /\ initialized
    /\ RequestEnters(r, c, access_counts, tiers)
    /\ UNCHANGED <<redis_client, refresh, refreshes, initialized, loads, overwrote>>

\* initialize (lines 229-233) and init_redis (lines 121-131): the flag is not
\* set, a client is made and _load_from_redis awaits the keys of the server
ArriveFirst(r) ==
    /\ active = 0
    /\ req[r].pc = "new"
    /\ ~initialized
    /\ redis_client' = TRUE
    /\ loads' = loads + 1
    /\ req' = [req EXCEPT ![r].pc = "keys"]
    /\ UNCHANGED <<cacheVars, indVars, scoreVars, anaVars, tier_out, redis, tasks,
                   last_task, restarts, pureVars, refresh, refreshes, initialized,
                   overwrote>>

\* lines 141-142: the keys arrive (in the order of Inserted), or the call raises
\* and the load ends (lines 148-149); a load that ends sets the flag (lines
\* 234-235) and the request goes on to get_market_data
LoadKeys(r, c, ok) ==
    /\ active = 0
    /\ req[r].pc = "keys"
    /\ LET held      == live(redis, now)
           is_key(t) == ok /\ t \in DOMAIN held
           keys      == SelectSeq(Inserted, is_key)
       IN  IF keys # <<>>
           THEN /\ req' = [req EXCEPT ![r] = [pc |-> "hgetall", todo |-> keys, slot |-> 0]]
                /\ UNCHANGED <<cacheVars, indVars, scoreVars, anaVars, regVars, pureVars,
                               refresh, refreshes, initialized, loads, overwrote>>
           ELSE /\ initialized' = TRUE
                /\ RequestEnters(r, c, access_counts, tiers)
                /\ UNCHANGED <<redis_client, refresh, refreshes, loads, overwrote>>

\* lines 143-147: hgetall of the next key returns and its count and tier replace
\* what the registry holds (or the call raises and the load ends); after the last
\* key the flag is set and the request goes on to get_market_data
LoadKey(r, c, ok) ==
    /\ active = 0
    /\ req[r].pc = "hgetall"
    /\ LET ticker  == Head(req[r].todo)
           held    == live(redis, now)
           count   == IF ticker \in DOMAIN held THEN held[ticker].count ELSE 0
           tier    == IF ticker \in DOMAIN held THEN held[ticker].tier ELSE "cold"
           counts1 == IF ok THEN dict_set(access_counts, ticker, count) ELSE access_counts
           tiers1  == IF ok THEN dict_set(tiers, ticker, tier) ELSE tiers
           rest    == IF ok THEN Tail(req[r].todo) ELSE <<>>
       IN  /\ overwrote' = (overwrote \/ (/\ ok
                                           /\ ticker \in DOMAIN last_access
                                           /\ counts1[ticker] # access_counts[ticker]))
           /\ IF rest # <<>>
              THEN /\ access_counts' = counts1
                   /\ tiers' = tiers1
                   /\ req' = [req EXCEPT ![r].todo = rest]
                   /\ UNCHANGED <<now, ticks, store, last_access, call, calls_made,
                                  last_done, active, request, indVars, scoreVars, anaVars,
                                  regVars, pureVars, refresh, refreshes, initialized,
                                  loads>>
              ELSE /\ initialized' = TRUE
                   /\ RequestEnters(r, c, counts1, tiers1)
                   /\ UNCHANGED <<redis_client, refresh, refreshes, loads>>

\* get_market_data returns to the endpoint, or raises
RequestReturns(r) ==
    /\ req[r].pc = "call"
    /\ Return(req[r].slot)
    /\ req' = [req EXCEPT ![r] = [pc |-> "done", todo |-> <<>>, slot |-> 0]]
    /\ UNCHANGED <<refresh, refreshes, initialized, loads, overwrote>>

NextStart ==
    \/ \E r \in Requests : ArriveFirst(r)
    \/ \E r \in Requests, c \in CallIds : ArriveInitialized(r, c)
    \/ \E r \in Requests, c \in CallIds, ok \in BOOLEAN : LoadKeys(r, c, ok)
    \/ \E r \in Requests, c \in CallIds, ok \in BOOLEAN : LoadKey(r, c, ok)
    \/ \E r \in Requests : RequestReturns(r)
    \/ \E i \in DOMAIN tasks, o \in PersistOutcomes : Persist(i, o)
    \/ \E c \in CallIds : CacheResult(c)
    \/ \E c \in CallIds : FetchFromSource(c, "raise", {}, <<>>)
    \/ \E c \in CallIds, h \in {x \in Histories : x.row.High >= x.row.Low} :
          FetchFromSource(c, "bars", {now - a : a \in h.ages}, h.row)
    \/ \E c \in CallIds, ok \in BOOLEAN : Upsert(c, ok)

\* ---------------------------------------------------------------------------
\* The TTL of the freshness check, at the times of a week
\* ---------------------------------------------------------------------------
\* the configured classes and one without a policy
TTLClasses == AssetClass \cup {"options"}
\* Monday to the Monday after
TTLDays    == 0..7
TTLHours   == 0..23
TTLMinutes == {0, 59}

InitTTL ==
    /\ args \in [asset_class : TTLClasses, day : TTLDays, hour : TTLHours,
                  minute : TTLMinutes]
    /\ ret = <<>>

\* policy and ttl as _get_from_cache takes them, datetime.now() being the
\* minute of the hour of the day drawn
GetCurrentTTL ==
    /\ ret = <<>>
    /\ LET policy == policy_of(args.asset_class)
           t      == args.day * Day + args.hour * Hour + args.minute * Minute
       IN  ret' = <<_get_current_ttl(args.asset_class, policy, t)>>
    /\ UNCHANGED <<args, cacheVars, indVars, scoreVars, anaVars, regVars, mgrVars>>

NextTTL == GetCurrentTTL

\* ---------------------------------------------------------------------------
\* Specifications
\* ---------------------------------------------------------------------------
Init == InitCache /\ IndIdle /\ ScoreIdle /\ AnaIdle /\ RegIdle /\ PureIdle /\ MgrIdle
Next == NextCache
Spec == Init /\ [][Next]_vars

InitIndicators == CacheIdle /\ InitInd /\ ScoreIdle /\ AnaIdle /\ RegIdle /\ PureIdle /\ MgrIdle
SpecInd == InitIndicators /\ [][NextInd]_vars

InitScoring == CacheIdle /\ IndIdle /\ InitScore /\ AnaIdle /\ RegIdle /\ PureIdle /\ MgrIdle
SpecScore == InitScoring /\ [][NextScore]_vars

InitAnalysis == CacheIdle /\ IndIdle /\ ScoreIdle /\ InitAna /\ RegIdle /\ PureIdle /\ MgrIdle
SpecAnalyze == InitAnalysis /\ [][NextAna]_vars

InitTier == CacheIdle /\ IndIdle /\ ScoreIdle /\ AnaIdle /\ RegIdle /\ PureIdle /\ MgrIdle
SpecTier == InitTier /\ [][NextTier]_vars

InitRegistry == CacheIdle /\ IndIdle /\ ScoreIdle /\ AnaIdle /\ InitReg /\ PureIdle /\ MgrIdle
SpecRegistry == InitRegistry /\ [][NextRegistry]_vars

InitInferring == CacheIdle /\ IndIdle /\ ScoreIdle /\ AnaIdle /\ RegIdle /\ InitInfer /\ MgrIdle
SpecInfer == InitInferring /\ [][NextInfer]_vars

InitStarting == InitStart /\ IndIdle /\ ScoreIdle /\ AnaIdle /\ PureIdle
SpecStart == InitStarting /\ [][NextStart]_vars

InitRefreshing == InitRefresh /\ IndIdle /\ ScoreIdle /\ AnaIdle /\ RegIdle /\ PureIdle
SpecRefresh == InitRefreshing /\ [][NextRefresh]_vars

InitDetecting == CacheIdle /\ IndIdle /\ ScoreIdle /\ AnaIdle /\ RegIdle /\ InitRegime /\ MgrIdle
SpecRegime == InitDetecting /\ [][NextRegime]_vars

InitUpdating == CacheIdle /\ InitState /\ ScoreIdle /\ AnaIdle /\ RegIdle /\ MgrIdle
SpecState == InitUpdating /\ [][NextState]_vars

InitFreshness == CacheIdle /\ IndIdle /\ ScoreIdle /\ AnaIdle /\ RegIdle /\ InitTTL /\ MgrIdle
SpecTTL == InitFreshness /\ [][NextTTL]_vars

\* ---------------------------------------------------------------------------
\* Claims on get_market_data
\* ---------------------------------------------------------------------------
Checked(f) == f.checked_at >= 0

\* C1: a call with force_refresh = false that finds, at its cache check, a bar of
\* (ticker, interval) inside the lookback window whose newest one is no older
\* than the TTL returns the stored bars, calls no source and writes nothing.
C1_CacheHitNoFetch ==
    \A c \in CallIds :
        LET f == call[c]
        IN  (Checked(f) /\ ~f.force_refresh /\ f.fresh) =>
                /\ f.pc = "done"
                /\ ~f.raised
                /\ f.tried = <<>>
                /\ f.upserts = 0
                /\ f.rows_seen # <<>>
                /\ f.result = [i \in 1..Len(f.rows_seen) |-> row_dict(f.rows_seen[i])]

C1_Witness ==
    \E c \in CallIds :
        /\ call[c].pc = "done"
        /\ call[c].fresh
        /\ ~call[c].force_refresh
        /\ Len(call[c].result) >= 2

\* C2: on a miss or a forced refresh the sources are attempted in the order
\* [primary] + fallbacks, each at most once, none after the first one that returned
\* a non-empty result, and the loop is left only at such a source or at the end
\* of the chain.
C2_SourceOrder ==
    \A c \in CallIds :
        LET f     == call[c]
            chain == <<policy_of(f.asset_class).primary_source>>
                     \o policy_of(f.asset_class).fallback_sources
            n     == Len(f.tried)
        IN  f.pc # "idle" =>
                /\ n <= Len(chain)
                /\ \A j \in 1..n : /\ f.tried[j].source = chain[j]
                                   /\ f.tried[j].ok => j = n
                /\ \A j, k \in 1..n : j # k => f.tried[j].source # f.tried[k].source
                /\ (f.pc \in {"upsert", "done"} /\ (f.force_refresh \/ ~f.fresh)) =>
                        /\ n >= 1
                        /\ f.tried[n].ok \/ n = Len(chain)

C2_Witness ==
    \E c \in CallIds :
        /\ Len(call[c].tried) = 3
        /\ ~call[c].tried[1].ok
        /\ ~call[c].tried[2].ok
        /\ call[c].tried[3].ok
        /\ call[c].tried[3].source = "fmp"

\* C3: when every source of the chain fails the call returns an empty list, does
\* not raise, and issues no upsert.
AllSourcesFailed(f) ==
    /\ Len(f.tried) = Len(sources_of(f.asset_class))
    /\ \A j \in 1..Len(f.tried) : ~f.tried[j].ok

C3_AllFailEmpty ==
    \A c \in CallIds :
        LET f == call[c]
        IN  AllSourcesFailed(f) =>
                /\ f.pc = "done"
                /\ f.result = <<>>
                /\ ~f.raised
                /\ f.upserts = 0

C3_Witness ==
    \E c \in CallIds :
        /\ AllSourcesFailed(call[c])
        /\ Len(call[c].tried) = 3
        /\ call[c].pc = "done"
        /\ call[c].result = <<>>
        /\ store # {}

\* C4: a request that follows at once on a call that missed, fetched and stored
\* its bars (same ticker, asset class, interval, lookback; force_refresh = false)
\* is served from the cache with no source call.
C4_SecondCallHits ==
    \A c \in CallIds :
        LET f == call[c]
        IN  (Checked(f) /\ f.follows_at = f.checked_at) =>
                /\ f.pc = "done"
                /\ f.tried = <<>>
                /\ f.result # <<>>

\* ---------------------------------------------------------------------------
\* Claims on the incremental indicators against the batch ones
\* ---------------------------------------------------------------------------

\* C5: MACDState.update returns a defined triple at exactly the indices where the
\* batch macd has all three values defined, with equal values there.
C5_MACDAgree ==
    LET b == macd(FedArr, period, period + 1, period)
    IN  \A i \in 1..Len(fed) :
            LET batch_defined == ~IsNaN(b[1][i]) /\ ~IsNaN(b[2][i]) /\ ~IsNaN(b[3][i])
                o             == outs[i].macd
            IN  /\ (o # None) <=> batch_defined
                /\ o # None => /\ QEq(o[1][1], b[1][i][1])
                               /\ QEq(o[1][2], b[2][i][1])
                               /\ QEq(o[1][3], b[3][i][1])

\* C6: on a sequence longer than period, RSIState.update returns a defined value
\* at exactly the indices where the batch rsi is defined, with equal values there.
C6_RSIAgree ==
    Len(fed) > period =>
        LET b == rsi(FedArr, period)
        IN  \A i \in 1..Len(fed) : FSame(outs[i].rsi, b[i])

\* C7: EMAState.update yields at each index the result of the batch ema: undefined
\* at the first p - 1 indices (and everywhere when fewer than p prices were given),
\* and from then on the value seeded with the first price and smoothed with
\* alpha = 2 / (p + 1).
C7_EMAAgree ==
    LET b == ema(FedArr, period)
    IN  \A i \in 1..Len(fed) :
            /\ FSame(outs[i].ema, b[i])
            /\ (outs[i].ema = None) <=> (i < period)
            /\ IsNaN(b[i]) <=> (i < period \/ Len(fed) < period)

C7_Witness ==
    /\ period = 3
    /\ Len(fed) = 5
    /\ fed[1] # fed[2]
    /\ fed[4] # fed[5]
    /\ outs[2].ema = None
    /\ outs[5].ema # None
    /\ ~QEq(outs[5].ema[1], outs[4].ema[1])

\* C9: the batch rsi is exactly 100 at every defined index where the smoothed
\* average loss is 0.
C9_RSI100 ==
    LET b == rsi(FedArr, period)
    IN  \A i \in 1..Len(fed) :
            (~IsNaN(b[i]) /\ QIsZero(wilder(losses_of(diff(FedArr)), period)[i - 1]))
                => QEq(b[i][1], QOfInt(100))

\* ---------------------------------------------------------------------------
\* Claims on the composite score and on analyze
\* ---------------------------------------------------------------------------

\* C8 as stated: analyze on the 30-point fixture returns a composite whose
\* signal is BUY or STRONG_BUY.
C8_FixtureBuy ==
    (prices_in = SAMPLE_PRICES /\ analysis # <<>>) =>
        /\ ~analysis[1].raised
        /\ analysis[1].composite.signal \in {"BUY", "STRONG_BUY"}

\* C8 amended: analyze on the 30-point fixture returns a composite whose signal
\* is STRONG_SELL: ema_50 and the macd triple are undefined on 30 prices, so the
\* overbought rsi (above 70, score -0.8) is the only component.
C8_FixtureStrongSell ==
    (prices_in = SAMPLE_PRICES /\ analysis # <<>>) =>
        LET a == analysis[1]
        IN  /\ ~a.raised
            /\ a.ema_50 = None
            /\ a.macd_signal = None
            /\ a.rsi_14 # None
            /\ QLt(QOfInt(70), a.rsi_14[1])
            /\ {a.composite.components[i].name :
                    i \in 1..Len(a.composite.components)} = {"rsi"}
            /\ QEq(a.composite.score, QFrac(-4, 5))
            /\ a.composite.signal = "STRONG_SELL"

C8_Witness ==
    /\ prices_in = SAMPLE_PRICES
    /\ analysis # <<>>
    /\ analysis[1].composite.signal = "STRONG_SELL"

\* the components the arguments make available
Available(in) ==
    {c \in {"rsi", "macd", "ema"} :
        \/ c = "rsi" /\ in.rsi # None
        \/ c = "macd" /\ in.macd # None
        \/ c = "ema" /\ in.ema_20 # None /\ in.ema_50 # None}

ComponentScore(c, in) ==
    CASE c = "rsi"  -> calculate_rsi_signal(in.rsi[1])[1]
      [] c = "macd" -> calculate_macd_signal(in.macd[1][1], in.macd[1][2],
                                             in.macd[1][3], None)[1]
      [] c = "ema"  -> calculate_ema_signal(in.price, in.ema_20[1], in.ema_50[1])[1]

\* sum over c in S of weight_c * x_c, with x_c = 1 when unit
RECURSIVE WeightedSum(_, _, _)
WeightedSum(S, in, unit) ==
    IF S = {} THEN QOfInt(0)
    ELSE LET c == CHOOSE x \in S : TRUE
         IN  QAdd(QMul(weights[c], IF unit THEN QOfInt(1) ELSE ComponentScore(c, in)),
                  WeightedSum(S \ {c}, in, unit))

\* C10: the score is sum(weight_c * score_c) / sum(weight_c) over exactly the
\* available components; with none available it is score 0, confidence 0, HOLD.
C10_WeightedAverage ==
    score_out # <<>> =>
        LET out == score_out[1]
            av  == Available(score_in)
        IN  /\ {out.components[i].name : i \in 1..Len(out.components)} = av
            /\ Len(out.components) = Cardinality(av)
            /\ av # {} => QEq(QMul(out.score, WeightedSum(av, score_in, TRUE)),
                              WeightedSum(av, score_in, FALSE))
            /\ av = {} => /\ QIsZero(out.score)
                          /\ QIsZero(out.confidence)
                          /\ out.signal = "HOLD"

C10_Witness ==
    /\ score_out # <<>>
    /\ Available(score_in) = {"rsi", "ema"}
    /\ ~QIsZero(ComponentScore("rsi", score_in))
    /\ ~QIsZero(ComponentScore("ema", score_in))
    /\ ~QIsZero(score_out[1].score)

\* ---------------------------------------------------------------------------
\* C11: the signal is STRONG_BUY iff score >= 0.6, BUY iff 0.2 <= score < 0.6,
\* STRONG_SELL iff score <= -0.6, SELL iff -0.6 < score <= -0.2 and HOLD iff
\* -0.2 < score < 0.2 (SpecScore)
\* ---------------------------------------------------------------------------
C11_SignalThresholds ==
    score_out # <<>> =>
        LET s   == score_out[1].score
            sig == score_out[1].signal
        IN  /\ sig \in {"STRONG_BUY", "BUY", "HOLD", "SELL", "STRONG_SELL"}
            /\ sig = "STRONG_BUY" <=> QLe(QFrac(6, 10), s)
            /\ sig = "BUY" <=> QLe(QFrac(2, 10), s) /\ QLt(s, QFrac(6, 10))
            /\ sig = "STRONG_SELL" <=> QLe(s, QFrac(-6, 10))
            /\ sig = "SELL" <=> QLt(QFrac(-6, 10), s) /\ QLe(s, QFrac(-2, 10))
            /\ sig = "HOLD" <=> QLt(QFrac(-2, 10), s) /\ QLt(s, QFrac(2, 10))

\* a score exactly on the strong-buy threshold was classified
C11_Witness ==
    /\ score_out # <<>>
    /\ QEq(score_out[1].score, QFrac(6, 10))
    /\ score_out[1].signal = "STRONG_BUY"

\* ---------------------------------------------------------------------------
\* C12: every get_market_data call raises the access count of its ticker by
\* exactly one, before the cache is consulted and whatever the call's outcome;
\* nothing else changes a count (Spec)
\* ---------------------------------------------------------------------------
C12_AccessCounted ==
    [][/\ calls_made' # calls_made =>
            \E c \in CallIds :
                /\ call[c].pc = "idle"
                /\ call'[c].pc \in {"cache", "fetch"}
                /\ call'[c].checked_at = -1
                /\ call'[c].tried = <<>>
                /\ access_counts' =
                       dict_set(access_counts, call'[c].ticker,
                                dict_get(access_counts, call'[c].ticker, 0) + 1)
       /\ calls_made' = calls_made => access_counts' = access_counts]_vars

\* a second call started after a first one failed; both were counted
C12_Witness ==
    /\ calls_made = 2
    /\ last_done # <<>>
    /\ last_done[1].raised
    /\ dict_get(access_counts, "AAPL", 0) = 2

\* ---------------------------------------------------------------------------
\* C13: the tier of a count is hot from 50, warm from 5 to 49, cold from 1 to 4
\* and frozen at 0 (thresholds inclusive at the lower bound); the tier the
\* registry keeps for a recorded ticker is the tier of its count (SpecTier)
\* ---------------------------------------------------------------------------
C13_TierThresholds ==
    /\ tier_out # <<>> =>
          LET count == tier_out[1]
              tier  == tier_out[2]
          IN  /\ tier = "hot" <=> count >= 50
              /\ tier = "warm" <=> 5 <= count /\ count <= 49
              /\ tier = "cold" <=> 1 <= count /\ count <= 4
              /\ tier = "frozen" <=> count = 0
              /\ count = 0 => tier = "frozen"
              /\ count = 4 => tier = "cold"
              /\ count = 5 => tier = "warm"
              /\ count = 49 => tier = "warm"
              /\ count = 50 => tier = "hot"
    /\ \A t \in DOMAIN access_counts :
          get_tier(tiers, t) = IF access_counts[t] >= 50 THEN "hot"
                               ELSE IF access_counts[t] >= 5 THEN "warm"
                               ELSE "cold"

\* the 50th access was recorded and the tier of count 50 was computed
C13_Witness ==
    /\ tier_out = <<50, "hot">>
    /\ dict_get(access_counts, "AAPL", 0) = 50
    /\ get_tier(tiers, "aapl") = "hot"

\* ---------------------------------------------------------------------------
\* C14: the access count holds only the accesses of the last seven days, so a
\* ticker whose last access is older than that has no counted access left and
\* no tier above cold (SpecRegistry)
\* ---------------------------------------------------------------------------
C14_StaleDemoted ==
    \A t \in DOMAIN last_access :
        last_access[t] + REDIS_TTL < now =>
            /\ dict_get(access_counts, t, 0) = 0
            /\ get_tier(tiers, t) \in {"cold", "frozen"}

\* ---------------------------------------------------------------------------
\* C19: a failing persistence task leaves the in-memory count, tier and last
\* access as they are and logs the failure; record_access only creates the task
\* and completes (SpecRegistry)
\* ---------------------------------------------------------------------------
C19_PersistFailureContained ==
    [][/\ (Len(tasks') = Len(tasks) - 1 /\ restarts' = restarts) =>
            /\ access_counts' = access_counts
            /\ tiers' = tiers
            /\ last_access' = last_access
            /\ last_task'[1].what = "persist"
            /\ last_task'[1].outcome # "ok" => last_task'[1].logged
       /\ (redis_client /\ access_counts' # access_counts /\ restarts' = restarts) =>
            /\ Len(tasks') = Len(tasks) + 1
            /\ redis' = redis
            /\ last_task' = last_task]_vars

\* the second access of a ticker was recorded, its persistence failed and was
\* logged, and the server holds nothing while the memory counts two accesses
C19_Witness ==
    /\ last_task = <<[what |-> "persist", outcome |-> "hset_raises", logged |-> TRUE]>>
    /\ restarts = 0
    /\ redis = <<>>
    /\ dict_get(access_counts, "AAPL", 0) = 2
    /\ tasks = <<>>

\* ---------------------------------------------------------------------------
\* C15: an upsert that commits leaves one row per (timestamp, ticker, interval),
\* each upserted bar stored with the fields of this upsert, every other row as
\* it was, and the same upsert once more changes nothing (Spec)
\* ---------------------------------------------------------------------------
KeyOf(r) == <<r.timestamp, r.ticker, r.interval>>

C15_UpsertIdempotent ==
    [][\A c \in CallIds :
          (call[c].pc = "upsert" /\ call'[c].pc = "done" /\ ~call'[c].write_failed) =>
              LET data == {call[c].data[i] : i \in DOMAIN call[c].data}
              IN  /\ \A r, q \in store' : KeyOf(r) = KeyOf(q) => r = q
                  /\ data \subseteq store'
                  /\ \A r \in store : (\A b \in data : KeyOf(b) # KeyOf(r)) => r \in store'
                  /\ store' \subseteq store \cup data
                  /\ upsert_ohlcv(store', call[c].data) = store']_vars

\* two calls of one request upserted the bar of one key, the second with other
\* prices than the first: the store holds the one row of the second
C15_Witness ==
    /\ last_done # <<>>
    /\ last_done[1].upserts = 1
    /\ \E c \in CallIds :
          /\ call[c].pc = "done"
          /\ call[c].upserts = 1
          /\ SameRequest(last_done[1], call[c])
          /\ Len(call[c].data) = 1
          /\ store = {call[c].data[1]}
          /\ call[c].data[1].high = 95
          /\ Len(call[c].rows_seen) = 1
          /\ call[c].rows_seen[1].high = 110
          /\ KeyOf(call[c].rows_seen[1]) = KeyOf(call[c].data[1])

\* ---------------------------------------------------------------------------
\* C16: when the write to the Bar Store fails, the store keeps its contents, the
\* call raises and hands no bars to its caller (Spec)
\* ---------------------------------------------------------------------------
C16_WriteFailurePropagates ==
    [][\A c \in CallIds :
          /\ (call[c].pc = "upsert" /\ call'[c].write_failed) =>
                /\ store' = store
                /\ call'[c].pc = "done"
                /\ call'[c].raised
                /\ call'[c].result = <<>>
                /\ call'[c].upserts = 0
          /\ (call[c].pc = "done" /\ call[c].write_failed /\ call'[c].pc = "idle") =>
                /\ last_done'[1].raised
                /\ last_done'[1].upserts = 0]_vars

\* a call fetched bars, its write failed and it raised: the bars are not stored
C16_Witness ==
    /\ last_done # <<>>
    /\ last_done[1].raised
    /\ last_done[1].missed
    /\ calls_made = 1
    /\ store = {}

\* ---------------------------------------------------------------------------
\* C17: the bars a call writes with source s were returned by the connector of
\* provider s, and the connector of the primary provider is invoked at most
\* once in a call (Spec)
\* ---------------------------------------------------------------------------
C17_SourceIsProvider ==
    \A c \in CallIds :
        LET f       == call[c]
            primary == policy_of(f.asset_class).primary_source
        IN  f.pc # "idle" =>
              /\ \A i \in DOMAIN f.tried :
                    f.tried[i].ok =>
                        /\ f.tried[i].connector = f.tried[i].source
                        /\ \A j \in DOMAIN f.data : f.data[j].source = f.tried[i].connector
              /\ Cardinality({i \in DOMAIN f.tried : f.tried[i].connector = primary}) <= 1

\* ---------------------------------------------------------------------------
\* C18: every bar in the Bar Store has high >= max(open, close, low) and
\* low <= min(open, close, high) (Spec)
\* ---------------------------------------------------------------------------
C18_StoredBarsWellFormed ==
    \A r \in store :
        /\ r.high >= r.open /\ r.high >= r.close /\ r.high >= r.low
        /\ r.low <= r.open /\ r.low <= r.close /\ r.low <= r.high

\* ---------------------------------------------------------------------------
\* C20: concurrent calls for one ticker are not deduplicated and run
\* independently: while the fetch of one call is in flight, an overlapping call
\* for the same ticker whose cache lookup is due goes on to its own fetch, so
\* that both fetches are in flight together (Spec)
\* ---------------------------------------------------------------------------
C20_FetchesInFlightTogether ==
    \A c, d \in CallIds :
        (c # d /\ call[c].pc = "fetch" /\ call[d].pc = "cache"
              /\ call[c].ticker = call[d].ticker) =>
            ENABLED CacheResult(d)

\* ---------------------------------------------------------------------------
\* C21: analyze does not raise for a price history of any length from 0 upward;
\* every indicator that lacks its minimum number of samples is None, and a trend
\* regime and a composite are returned (SpecAnalyze)
\* ---------------------------------------------------------------------------
C21_ShortHistoryNoRaise ==
    analysis # <<>> =>
        LET a == analysis[1]
            n == Len(prices_in)
        IN  /\ ~a.raised
            /\ n < 20 => a.ema_20 = None
            /\ n < 50 => a.ema_50 = None
            /\ n < 15 => a.rsi_14 = None
            /\ n < 26 => a.macd_line = None
            /\ n < 34 => (a.macd_signal = None /\ a.macd_histogram = None)
            /\ a.trend \in {"STRONG_UPTREND", "UPTREND", "SIDEWAYS", "DOWNTREND",
                             "STRONG_DOWNTREND"}
            /\ a.composite.signal \in {"STRONG_BUY", "BUY", "HOLD", "SELL", "STRONG_SELL"}

\* ---------------------------------------------------------------------------
\* C22: the bars get_market_data returns are in timestamp order, oldest first,
\* whether they come from the cache or from a source (Spec)
\* ---------------------------------------------------------------------------
C22_OldestFirst ==
    \A c \in CallIds :
        call[c].pc = "done" =>
            \A i, j \in DOMAIN call[c].result :
                i < j => call[c].result[i].timestamp[2] <= call[c].result[j].timestamp[2]

\* ---------------------------------------------------------------------------
\* C23: the MACD component of the composite is +0.6 when line > signal and
\* histogram > 0, +0.9 when the histogram of the previous bar was <= 0 as well;
\* -0.6 when line < signal and histogram < 0, -0.9 when the previous histogram
\* was >= 0 as well; otherwise 0 (SpecScore)
\* ---------------------------------------------------------------------------
C23_MacdComponent ==
    (score_out # <<>> /\ score_in.macd # None) =>
        LET line      == score_in.macd[1][1]
            signal    == score_in.macd[1][2]
            histogram == score_in.macd[1][3]
            prev      == score_in.prev_histogram
            expected  == IF QLt(signal, line) /\ QSign(histogram) > 0
                         THEN IF QSign(prev) <= 0 THEN QFrac(9, 10) ELSE QFrac(6, 10)
                         ELSE IF QLt(line, signal) /\ QSign(histogram) < 0
                         THEN IF QSign(prev) >= 0 THEN QFrac(-9, 10) ELSE QFrac(-6, 10)
                         ELSE QOfInt(0)
            comps     == score_out[1].components
        IN  \E i \in DOMAIN comps :
                comps[i].name = "macd" /\ QEq(comps[i].score, expected)

\* C27: _infer_asset_class classifies every six-letter pair whose first three
\* letters are EUR, USD, GBP, JPY, AUD or CAD as forex, GDP, CPI, UNRATE,
\* FEDFUNDS and VIX as macro, BTC, ETH, SOL and every symbol ending in USDT, BTC
\* or ETH as crypto and everything else as equity, by the upper-cased ticker.
C27_Expected(ticker) ==
    IF Len(ticker) = 6 /\ str_prefix(ticker, 3) \in ForexPrefixes THEN "forex"
    ELSE IF ticker \in MacroSymbols THEN "macro"
    ELSE IF ticker \in CryptoSymbols
            \/ endswith(ticker, {<<"U", "S", "D", "T">>, <<"B", "T", "C">>, <<"E", "T", "H">>}) THEN "crypto"
    ELSE "equity"

C27_InferAssetClass ==
    ret # <<>> => ret[1] = C27_Expected(str_upper(args))

\* C26: the TTL of the freshness check is the policy's trading_hours_ttl for
\* crypto at every time; for every other class it is trading_hours_ttl exactly on
\* Monday to Friday with the hour in 9..17, and off_hours_ttl otherwise; a class
\* without a policy uses the policy of equity.
C26_TTLByClassAndTime ==
    ret # <<>> =>
        LET configured == IF args.asset_class \in AssetClass THEN args.asset_class
                          ELSE "equity"
            trading    == CACHE_POLICIES[configured].trading_hours_ttl
            off        == CACHE_POLICIES[configured].off_hours_ttl
            in_window  == args.day \in {0, 1, 2, 3, 4, 7} /\ args.hour \in 9..17
        IN  ret[1] = IF args.asset_class = "crypto" \/ in_window THEN trading ELSE off

\* Friday 17:59 is in the window of an equity, Saturday 10:00 is not, and a
\* class without a policy has the 15 minutes of an equity on Monday morning
C26_Witness ==
    /\ ret # <<>>
    /\ \/ args = [asset_class |-> "equity", day |-> 4, hour |-> 17, minute |-> 59]
          /\ ret[1] = 15 * Minute
       \/ args = [asset_class |-> "options", day |-> 0, hour |-> 9, minute |-> 0]
          /\ ret[1] = 15 * Minute

\* C25: after any sequence of record_access calls on a fresh registry, get_tier
\* of a ticker accessed at least once is the threshold tier of its count, get_tier
\* of a ticker never accessed is cold, and tickers that differ only in letter case
\* are one ticker (one count, one tier).
C25_Asked == Tickers \cup OtherTickers \cup {"MSFT"}

C25_GetTierFollowsCount ==
    /\ DOMAIN access_counts \subseteq {"AAPL", "BTC"}
    /\ DOMAIN tiers \subseteq DOMAIN access_counts
    /\ \A t \in C25_Asked :
          LET key == IF t \in {"aapl", "AAPL"} THEN "AAPL"
                     ELSE IF t \in {"btc", "BTC"} THEN "BTC" ELSE t
          IN  IF key \in DOMAIN access_counts
              THEN /\ access_counts[key] >= 1
                   /\ access_counts[key] >= 50 => get_tier(tiers, t) = "hot"
                   /\ access_counts[key] \in 5..49 => get_tier(tiers, t) = "warm"
                   /\ access_counts[key] \in 1..4 => get_tier(tiers, t) = "cold"
              ELSE get_tier(tiers, t) = "cold"

\* AAPL was accessed five times and is warm under either spelling, BTC once,
\* MSFT never
C25_Witness ==
    /\ dict_get(access_counts, "AAPL", 0) = 5
    /\ get_tier(tiers, "aapl") = "warm"
    /\ dict_get(access_counts, "BTC", 0) = 1
    /\ get_tier(tiers, "btc") = "cold"
    /\ "MSFT" \notin DOMAIN access_counts
    /\ get_tier(tiers, "MSFT") = "cold"

\* C28: each metric of an IndicatorState has a fixed update number k, the same
\* for every price history: update returns None for the metric on every update
\* before the k-th and a value on the k-th and on every later one (k = 20 for
\* ema_20, 50 for ema_50, 16 for rsi_14, 34 for macd), so a metric that has
\* become defined never reverts to None.
C28_WarmUp ==
    \A i \in DOMAIN outs :
        /\ outs[i].ema_20 = None <=> i < 20
        /\ outs[i].ema_50 = None <=> i < 50
        /\ outs[i].rsi_14 = None <=> i < 16
        /\ outs[i].macd = None <=> i < 34

\* the 50th update has defined the last metric and a later update was made
C28_Witness ==
    /\ Len(outs) > 50
    /\ outs[49].ema_50 = None
    /\ outs[50].ema_50 # None
    /\ outs[Len(outs)].ema_50 # None
    /\ outs[19].ema_20 = None
    /\ outs[20].ema_20 # None

\* C29: detect_trend_regime returns (sideways, 0) for fewer than 2 prices or an
\* undefined latest short or long EMA; otherwise the strength is
\* min(1, 10 * |short - long| / long), in [0, 1], and the regime is an uptrend
\* iff price > short > long and (short - long) / long > 2%, a downtrend iff
\* price < short < long and (short - long) / long < -2%, sideways otherwise, the
\* trend being the strong variant iff strength > 0.5 (positive prices and EMAs).
C29_TrendRegime ==
    ret # <<>> =>
        LET regime   == ret[1][1]
            strength == ret[1][2]
            p == args.price
        IN  IF args.n < 2 \/ args.short = <<>> \/ args.long_ = <<>>
            THEN regime = "SIDEWAYS" /\ QIsZero(strength)
            ELSE LET s      == args.short[1]
                     l      == args.long_[1]
                     gap    == IF s >= l THEN s - l ELSE l - s
                     up     == p > s /\ s > l /\ 100 * (s - l) > 2 * l
                     down   == p < s /\ s < l /\ 100 * (s - l) < -2 * l
                     strong == 20 * gap > l
                 IN  /\ QEq(strength, IF 10 * gap >= l THEN QOfInt(1)
                                      ELSE QFrac(10 * gap, l))
                     /\ QLe(QOfInt(0), strength) /\ QLe(strength, QOfInt(1))
                     /\ regime = "STRONG_UPTREND" <=> up /\ strong
                     /\ regime = "UPTREND" <=> up /\ ~strong
                     /\ regime = "STRONG_DOWNTREND" <=> down /\ strong
                     /\ regime = "DOWNTREND" <=> down /\ ~strong
                     /\ regime = "SIDEWAYS" <=> ~up /\ ~down

\* a weak uptrend at a spread of 5%, a strong one at 6%, sideways at exactly 2%
\* and with an undefined long EMA
C29_Witness ==
    /\ ret # <<>>
    /\ args.n = 5
    /\ \/ args.price = 107 /\ args.short = <<105>> /\ args.long_ = <<100>>
          /\ ret[1][1] = "UPTREND"
       \/ args.price = 107 /\ args.short = <<106>> /\ args.long_ = <<100>>
          /\ ret[1][1] = "STRONG_UPTREND"
       \/ args.price = 107 /\ args.short = <<102>> /\ args.long_ = <<100>>
          /\ ret[1][1] = "SIDEWAYS"
       \/ args.price = 87 /\ args.short = <<94>> /\ args.long_ = <<100>>
          /\ ret[1][1] = "STRONG_DOWNTREND"

\* C24: refresh_hot_tier leaves every ticker's access count and tier unchanged
\* (a scheduled refresh is not recorded as an access), so the hot tickers after a
\* refresh are the hot tickers before it.
C24_RefreshLeavesRegistry ==
    [][refresh' # refresh => access_counts' = access_counts /\ tiers' = tiers]_vars

\* C30: the initialisation is once-only under concurrency: however the requests
\* that each run "if not _initialized: await initialize()" interleave, the
\* warm-start load from the key-value store runs at most once, so no load replaces
\* an access count that record_access has already updated in memory.
C30_InitializedOnce ==
    /\ loads <= 1
    /\ ~overwrote

====
